---- MODULE Spec2Model ----
(***************************************************************************)
(* A model of 1c-help-parser: the split converters (chunker, exporter,     *)
(* indices), the search-index builders, and the BSL syntax extractor with  *)
(* its classifier and corpus builder.                                      *)
(***************************************************************************)
EXTENDS Integers, Sequences, FiniteSets, TLC

VARIABLES
    \* ---- split converters (SplitConverter and its subclasses)
    converter,            \* which subclass runs: "max" | "optimized" | "none"
    input_file,           \* the JSON file load_data reads: [status, context_items]
    data,                 \* the item list handed to export_split / create_main_index
    max_file_size_kb,     \* SplitConverter.max_file_size_kb
    max_items_per_file,   \* SplitConverter.max_items_per_file
    verbose,              \* BaseConverter.verbose
    pc,                   \* position inside convert()
    cat_idx,              \* export_split: index of the category being exported
    chunk_idx,            \* export_split: index of the chunk being written
    chunks,               \* export_split: chunks of the current category
    dirs,                 \* directories existing under output_dir
    files,                \* files existing under output_dir: path -> content
    exported_files,       \* BaseConverter.exported_files
    io_failures,          \* number of I/O operations that failed so far
    first_run,            \* what an earlier run on the same input left behind
    \* ---- search index builders
    search_items,         \* the items handed to create_search_index
    search_index,         \* the index it returns: token -> list of ids
    search_pc,            \* "build" | "built_base" | "built_optimized" | "raised"
    \* ---- BSL syntax extractor (BSLSyntaxExtractor) and run.py
    run_max_files,        \* run_parser(max_files): the limit asked for, if any
    zip_file,             \* the archive: whether it is open, its entries
    max_files,            \* extract_all_syntax(max_files)
    page_idx,             \* how many entries of html_files[:max_files] are behind
    html_page,            \* the page in hand: its filename and its markup
    syntax_info,          \* what extract_syntax_info returned for the page in hand
    syntax_data,          \* the corpus: category -> (title -> record)
    processed,            \* the counter extract_all_syntax prints
    result,               \* what extract_all_syntax returned
    extract_pc            \* position inside extract_all_syntax

searchVars == <<search_items, search_index, search_pc>>

convVars == <<converter, input_file, data, max_file_size_kb, max_items_per_file,
              verbose, pc, cat_idx, chunk_idx, chunks, dirs, files,
              exported_files, io_failures, first_run>>

corpusVars == <<run_max_files, zip_file, max_files, page_idx, html_page,
                syntax_info, syntax_data,
                processed, result, extract_pc>>

vars == <<convVars, searchVars, corpusVars>>

----------------------------------------------------------------------------
(* Generic helpers *)

Range(s) == {s[i] : i \in 1..Len(s)}

RECURSIVE SumSeq(_)
SumSeq(s) == IF s = <<>> THEN 0 ELSE Head(s) + SumSeq(Tail(s))

RECURSIVE Concat(_)
Concat(ss) == IF ss = <<>> THEN <<>> ELSE Head(ss) \o Concat(Tail(ss))

\* all sequences over S of length at most n
SeqsUpTo(S, n) == UNION {[1..k -> S] : k \in 0..n}

\* the orders a set can be listed in
Orders(S) == {order \in [1..Cardinality(S) -> S] : Range(order) = S}

----------------------------------------------------------------------------
(* Bounds of the model *)

MaxSearchItems == 3      \* longest item list handed to create_search_index
MaxArchiveEntries == 3   \* most entries of a modelled archive
MaxMarkupNodes == 3      \* most nodes after the opening of a generated page
MaxSyntaxBlocks == 4     \* most marker blocks of a generated syntax section
MaxSelectExtra == 2      \* most items behind the filler of a selector's input
MaxSegments == 3         \* most comma-separated segments of an availability text

MaxChunkItems == 5       \* longest item list handed to split_into_chunks alone
MaxExportItems == 3      \* longest item list of a modelled export run
MaxItemsPerFile == 3     \* largest max_items_per_file explored
MaxFileSizeKb == 2       \* largest max_file_size_kb explored
MaxIOFailures == 1       \* most I/O operations that fail in one run
MaxExportKb == 1         \* largest max_file_size_kb of a modelled export run
MaxExportPerFile == 2    \* largest max_items_per_file of a modelled export run
MaxPipelinePages == 2    \* most pages of the archive behind a pipeline run

----------------------------------------------------------------------------
(* Context items *)

\* item.get('category', 'other') of an item that has no category key
NoKey == "<no key>"

\* len(json.dumps(item, ensure_ascii=False)): the serialized length of an item
ItemSize(item) == item.size

\* item.get('category', 'other')
ItemCategory(item) == IF item.category = NoKey THEN "other" ELSE item.category

\* item.get('id')
ItemId(item) == item.id

\* no earlier run
NoRun == [ran |-> FALSE]

\* no search index is being built
SearchIdle ==
    /\ search_items = <<>>
    /\ search_index = <<>>
    /\ search_pc = "idle"

\* the archive that was never opened: BaseParser.zip_file = None
NoZip == [open |-> FALSE, entries |-> <<>>]

\* the archive open_archive opened, with its entries in namelist() order
OpenZip(entries) == [open |-> TRUE, entries |-> entries]

\* no page is in hand, nothing was returned
NoRecord == [none |-> TRUE]

\* BSLSyntaxExtractor.__init__: the six empty category mappings
EmptySyntaxData ==
    [category \in {"objects", "methods", "properties", "functions", "operators",
                   "keywords"} |-> <<>>]

\* run_parser(zip_file, max_files=None), and a call with a number
NoLimit == [given |-> FALSE]

GivenLimit(n) == [given |-> TRUE, value |-> n]

\* no corpus is being built
CorpusIdle ==
    /\ run_max_files = NoLimit
    /\ zip_file = NoZip
    /\ max_files = 0
    /\ page_idx = 0
    /\ html_page = NoRecord
    /\ syntax_info = NoRecord
    /\ syntax_data = EmptySyntaxData
    /\ processed = 0
    /\ result = NoRecord
    /\ extract_pc = "idle"

----------------------------------------------------------------------------
(* SplitConverter.split_by_category: a dict, keys in insertion order *)

\* the keys in the order of their first appearance; a long list is taken half
\* by half, the second half once the first is through
RECURSIVE CategoryKeys(_, _)
CategoryKeys(items, seen) ==
    IF items = <<>> THEN seen
    ELSE IF Len(items) = 1
    THEN IF ItemCategory(items[1]) \in Range(seen) THEN seen
         ELSE Append(seen, ItemCategory(items[1]))
    ELSE CHOOSE whole \in
            {CategoryKeys(SubSeq(items, Len(items) \div 2 + 1, Len(items)), first) :
                first \in {CategoryKeys(SubSeq(items, 1, Len(items) \div 2), seen)}} :
            TRUE

CategoryItems(items, category) ==
    SelectSeq(items, LAMBDA item : ItemCategory(item) = category)

\* [keys |-> categories in order of first appearance, items |-> category -> list]
split_by_category(items) ==
    LET keys == CategoryKeys(items, <<>>)
    IN [keys |-> keys,
        items |-> [c \in Range(keys) |-> CategoryItems(items, c)]]

----------------------------------------------------------------------------
(* SplitConverter.split_into_chunks *)

\* variants of the limit test with a slip in them
LimitReached_ItemsOffByOne(current_chunk, current_size, item_size, kb, per_file) ==
    \/ Len(current_chunk) > per_file
    \/ current_size + item_size > kb * 1024

LimitReached_SizeBeforeAdding(current_chunk, current_size, item_size, kb, per_file) ==
    \/ Len(current_chunk) >= per_file
    \/ current_size > kb * 1024

\* a variant that counts the item about to be added
LimitReached_CountsTheNext(current_chunk, current_size, item_size, kb, per_file) ==
    \/ Len(current_chunk) + 1 >= per_file
    \/ current_size + item_size > kb * 1024

\* the limit test made before an item is added
LimitReached(current_chunk, current_size, item_size, kb, per_file) ==
    \/ Len(current_chunk) >= per_file
    \/ current_size + item_size > kb * 1024

\* a variant that forgets the chunk still open when the loop ends
CloseLast_Forgotten(acc, current_chunk) == acc

\* after the loop: the chunk still open, if it holds anything, is the last chunk
CloseLast(acc, current_chunk) ==
    IF current_chunk # <<>> THEN Append(acc, current_chunk) ELSE acc

RECURSIVE SplitLoop(_, _, _, _, _, _)
SplitLoop(items, acc, current_chunk, current_size, kb, per_file) ==
    IF items = <<>> THEN CloseLast(acc, current_chunk)
    ELSE LET item == Head(items)
             item_size == ItemSize(item)
             close == /\ LimitReached(current_chunk, current_size, item_size,
                                      kb, per_file)
                      /\ current_chunk # <<>>
             acc2 == IF close THEN Append(acc, current_chunk) ELSE acc
             chunk2 == IF close THEN <<>> ELSE current_chunk
             size2 == IF close THEN 0 ELSE current_size
         IN SplitLoop(Tail(items), acc2, Append(chunk2, item),
                      size2 + item_size, kb, per_file)

split_into_chunks(items, kb, per_file) ==
    SplitLoop(items, <<>>, <<>>, 0, kb, per_file)

\* the size estimate the chunker keeps for a chunk: the sum of its items' sizes
ChunkSize(chunk) == SumSeq([i \in 1..Len(chunk) |-> ItemSize(chunk[i])])

----------------------------------------------------------------------------
(* File names and file contents of an export *)

\* f"{n:03d}"
Pad3(n) == IF n < 10 THEN "00" \o ToString(n)
           ELSE IF n < 100 THEN "0" \o ToString(n)
           ELSE ToString(n)

\* export_split: the name under which chunk i (1-based) is written
ChunkFileName(category, i, prefix) ==
    LET filename == category \o "_" \o Pad3(i) \o ".json"
    IN IF prefix # "" THEN prefix \o "_" \o filename ELSE filename

\* the chunk names export_split and create_main_index record in the indices
IndexedChunkNames(category, n) ==
    [i \in 1..n |-> category \o "_" \o Pad3(i) \o ".json"]

CategoryIndexName(category) == category \o "_index.json"

MainIndexName == "main_index.json"

\* os.path.join(dir, name), kept as the pair of its parts
PathJoin(dir, name) == <<dir, name>>

\* output_dir of convert()
OutputDir(conv) == IF conv = "optimized" THEN "data/optimized_split"
                   ELSE "data/max_split"

\* os.path.join(output_dir, category)
CategoryDir(conv, category) == OutputDir(conv) \o "/" \o category

\* the prefix convert() passes to export_split
Prefix(conv) == IF conv = "optimized" THEN "optimized" ELSE ""

\* the mode convert() passes to create_main_index
Mode(conv) == IF conv = "optimized" THEN "optimized_split" ELSE "max_split"

\* the JSON written for chunk i of a category (created_at left out)
ChunkContent(category, i, chunk, total) ==
    [kind |-> "chunk",
     items |-> chunk,
     metadata |-> [category |-> category, chunk |-> i, total_chunks |-> total,
                   items_count |-> Len(chunk)]]

\* a variant that counts the chunks where the items are meant
CategoryIndexContent_CountsChunks(category, items, chunks_) ==
    [kind |-> "category_index",
     category |-> category,
     total_items |-> Len(chunks_),
     total_chunks |-> Len(chunks_),
     chunks |-> IndexedChunkNames(category, Len(chunks_))]

\* the JSON written as a category's index (created_at left out)
CategoryIndexContent(category, items, chunks_) ==
    [kind |-> "category_index",
     category |-> category,
     total_items |-> Len(items),
     total_chunks |-> Len(chunks_),
     chunks |-> IndexedChunkNames(category, Len(chunks_))]

\* the JSON create_main_index writes (created_at left out)
MainIndexContent(all_items, mode, kb, per_file) ==
    LET categories == split_by_category(all_items)
    IN [kind |-> "main_index",
        total_items |-> Len(all_items),
        categories |->
            [c \in Range(categories.keys) |->
                LET chunks_ == split_into_chunks(categories.items[c], kb, per_file)
                IN [items_count |-> Len(categories.items[c]),
                    chunks_count |-> Len(chunks_),
                    files |-> IndexedChunkNames(c, Len(chunks_))]],
        mode |-> mode,
        settings |-> [max_file_size_kb |-> kb, max_items_per_file |-> per_file]]

\* what a file holds after json.dump failed part-way
PartialContent == [kind |-> "partial"]

----------------------------------------------------------------------------
(* OptimizedSplitConverter.optimize_data and _sort_by_importance *)

\* d.get(key) of a text field: a missing key reads as empty (None is falsy too)
StrGet(d, key) == IF key \in DOMAIN d THEN d[key] ELSE ""

\* d.get(key) of a list field
SeqGet(d, key) == IF key \in DOMAIN d THEN d[key] ELSE <<>>

\* d.get(key) of a dict field, as the set of the dict's keys
KeysGet(d, key) == IF key \in DOMAIN d THEN DOMAIN d[key] ELSE {}

\* score_item of _sort_by_importance
score_item(item) ==
    LET metadata == item.metadata
    IN (IF item.category \in {"methods", "functions"} THEN 100 ELSE 0)
       + (IF StrGet(metadata, "syntax") # ""
             \/ SeqGet(metadata, "syntax_variants") # <<>> THEN 50 ELSE 0)
       + (IF SeqGet(metadata, "parameters") # <<>>
             \/ KeysGet(metadata, "parameters_by_variant") # {} THEN 30 ELSE 0)
       + (IF StrGet(metadata, "example") # "" THEN 20 ELSE 0)
       + Len(SeqGet(metadata, "methods")) * 10
       + (IF item.content_len > 50 THEN 10 ELSE 0)

\* a variant that places x before the elements of its score
InsertByScore_BeforeEqual(sorted, x) ==
    SelectSeq(sorted, LAMBDA y : score_item(y) > score_item(x))
    \o <<x>>
    \o SelectSeq(sorted, LAMBDA y : score_item(y) <= score_item(x))

\* x placed into a list sorted by descending score, behind every element that
\* scores at least as much (sorted(..., reverse=True) keeps equal keys in order)
InsertByScore(sorted, x) ==
    SelectSeq(sorted, LAMBDA y : score_item(y) >= score_item(x))
    \o <<x>>
    \o SelectSeq(sorted, LAMBDA y : score_item(y) < score_item(x))

\* the items placed one after the other; a long list is taken half by half,
\* the second half once the first is placed
RECURSIVE SortFrom(_, _)
SortFrom(items, sorted) ==
    IF items = <<>> THEN sorted
    ELSE IF Len(items) = 1 THEN InsertByScore(sorted, items[1])
    ELSE CHOOSE whole \in
            {SortFrom(SubSeq(items, Len(items) \div 2 + 1, Len(items)), first) :
                first \in {SortFrom(SubSeq(items, 1, Len(items) \div 2), sorted)}} :
            TRUE

\* sorted(items, key=score_item, reverse=True)
sort_by_importance(items) == SortFrom(items, <<>>)

\* priorities of optimize_data: assigned and never read
OptimizePriorities == [methods |-> 1, functions |-> 2, operators |-> 3,
                       objects |-> 4, properties |-> 5]

\* limits of optimize_data, and the default of limits.get(category, 100)
OptimizeLimits == [methods |-> 200, functions |-> 300, operators |-> 50,
                   objects |-> 500, properties |-> 200]

DefaultLimit == 100

LimitOf(limits, category) ==
    IF category \in DOMAIN limits THEN limits[category] ELSE DefaultLimit

\* the body of the selection loop of optimize_data: an item is kept while its
\* category's count is below the category's limit
SelectItem(item, selected, category_counts, limits) ==
    LET category == ItemCategory(item)
        count == IF category \in DOMAIN category_counts
                 THEN category_counts[category] ELSE 0
    IN IF count < LimitOf(limits, category)
       THEN [selected |-> Append(selected, item),
             category_counts |-> (category :> count + 1) @@ category_counts]
       ELSE [selected |-> selected,
             category_counts |-> (category :> count) @@ category_counts]

\* the selection loop: selected_items and category_counts after it; a long
\* list is taken half by half, the second half once the first is through
RECURSIVE SelectLoop(_, _, _, _)
SelectLoop(items, selected, category_counts, limits) ==
    IF items = <<>>
    THEN [selected |-> selected, category_counts |-> category_counts]
    ELSE IF Len(items) = 1
    THEN SelectItem(items[1], selected, category_counts, limits)
    ELSE CHOOSE whole \in
            {SelectLoop(SubSeq(items, Len(items) \div 2 + 1, Len(items)),
                        first.selected, first.category_counts, limits) :
                first \in {SelectLoop(SubSeq(items, 1, Len(items) \div 2),
                                      selected, category_counts, limits)}} :
            TRUE

optimize_data(items) ==
    SelectLoop(sort_by_importance(items), <<>>, <<>>, OptimizeLimits).selected

----------------------------------------------------------------------------
(* run.py, create_optimized_version: the selection *)

\* priorities and limits of create_optimized_version
RunPriorities == [methods |-> 1, functions |-> 2, operators |-> 3,
                  objects |-> 4, properties |-> 5]

RunLimits == [methods |-> 100, functions |-> 100, operators |-> 20,
              objects |-> 1000, properties |-> 20]

\* priorities.get(x, 999)
PriorityOf(category) ==
    IF category \in DOMAIN RunPriorities THEN RunPriorities[category] ELSE 999

\* the score of the loop over the items of a category
run_score(item) ==
    Len(SeqGet(item.metadata, "methods")) * 10
    + (IF StrGet(item.metadata, "syntax") # ""
          \/ SeqGet(item.metadata, "syntax_variants") # <<>> THEN 5 ELSE 0)
    + (IF SeqGet(item.metadata, "parameters") # <<>>
          \/ KeysGet(item.metadata, "parameters_by_variant") # {} THEN 3 ELSE 0)
    + (IF StrGet(item.metadata, "example") # "" THEN 1 ELSE 0)
    + (IF item.content_len > 0 THEN 1 ELSE 0)

\* scored_items: the (item, score) pairs in the order of the items
ScoredItems(items) ==
    [k \in 1..Len(items) |-> [item |-> items[k], score |-> run_score(items[k])]]

\* scored_items.sort(key=score, reverse=True): pairs of equal score keep
\* their order
InsertScored(sorted, x) ==
    SelectSeq(sorted, LAMBDA y : y.score >= x.score)
    \o <<x>>
    \o SelectSeq(sorted, LAMBDA y : y.score < x.score)

RECURSIVE SortScored(_, _)
SortScored(scored, sorted) ==
    IF scored = <<>> THEN sorted
    ELSE IF Len(scored) = 1 THEN InsertScored(sorted, scored[1])
    ELSE CHOOSE whole \in
            {SortScored(SubSeq(scored, Len(scored) \div 2 + 1, Len(scored)), first) :
                first \in {SortScored(SubSeq(scored, 1, Len(scored) \div 2), sorted)}} :
            TRUE

\* [item for item, score in scored_items[:limit]]
TopOf(sorted, limit) ==
    [k \in 1..(IF limit < Len(sorted) THEN limit ELSE Len(sorted)) |->
        sorted[k].item]

TopItems(items, limit) == TopOf(SortScored(ScoredItems(items), <<>>), limit)

\* sorted(categories.keys(), key=priority): keys of equal priority keep the
\* order of their first appearance
RECURSIVE InsertByPriority(_, _)
InsertByPriority(sorted, category) ==
    IF sorted = <<>> THEN <<category>>
    ELSE IF PriorityOf(Head(sorted)) <= PriorityOf(category)
         THEN <<Head(sorted)>> \o InsertByPriority(Tail(sorted), category)
         ELSE <<category>> \o sorted

RECURSIVE SortedCategories(_, _)
SortedCategories(keys, sorted) ==
    IF keys = <<>> THEN sorted
    ELSE SortedCategories(Tail(keys), InsertByPriority(sorted, Head(keys)))

\* optimized_items: the top items of each category, category after category
RECURSIVE OptimizedItems(_, _)
OptimizedItems(items, sorted_categories) ==
    IF sorted_categories = <<>> THEN <<>>
    ELSE TopItems(CategoryItems(items, Head(sorted_categories)),
                  LimitOf(RunLimits, Head(sorted_categories)))
         \o OptimizedItems(items, Tail(sorted_categories))

create_optimized(items) ==
    OptimizedItems(items, SortedCategories(CategoryKeys(items, <<>>), <<>>))

----------------------------------------------------------------------------
(* BaseConverter.export_json: every failure is caught and printed *)

\* how a call of export_json can end: written; ensure_directory or open raised
\* (nothing written); json.dump raised (the file is left part-written)
IOOutcomes == {"ok", "open_failed", "dump_failed"}

\* failures are followed up to MaxIOFailures in a run, and not in a run that
\* repeats an earlier one
MayFail(outcome) ==
    outcome = "ok" \/ (io_failures < MaxIOFailures /\ ~first_run.ran)

export_json(content, path, outcome) ==
    /\ MayFail(outcome)
    /\ files' = CASE outcome = "ok" -> (path :> content) @@ files
                  [] outcome = "open_failed" -> files
                  [] outcome = "dump_failed" -> (path :> PartialContent) @@ files
    /\ dirs' = IF outcome = "open_failed" THEN dirs ELSE dirs \cup {path[1]}
    /\ exported_files' = IF outcome = "ok" THEN Append(exported_files, path)
                         ELSE exported_files
    /\ io_failures' = IF outcome = "ok" THEN io_failures ELSE io_failures + 1

----------------------------------------------------------------------------
(* MaxSplitConverter.convert and OptimizedSplitConverter.convert, step by step *)

\* the categories export_split walks
ExportCategories == split_by_category(data)

\* where export_split goes once category k is finished or skipped
AfterCategory(k) ==
    IF k <= Len(ExportCategories.keys) THEN "export_mkdir" ELSE "summary"

\* a variant in which convert goes on after load_data returned False
LoadData_GoesOn ==
    /\ pc = "load"
    /\ pc' = "mkdir_out"
    /\ UNCHANGED <<searchVars, corpusVars, first_run>>
    /\ UNCHANGED <<converter, input_file, data, max_file_size_kb,
                   max_items_per_file, verbose, cat_idx, chunk_idx, chunks,
                   dirs, files, exported_files, io_failures>>

\* load_data: a missing or malformed file makes it return False, and convert
\* returns at once
LoadData ==
    /\ pc = "load"
    /\ pc' = IF input_file.status \in {"missing", "malformed"}
             THEN "load_failed" ELSE "mkdir_out"
    /\ UNCHANGED <<searchVars, corpusVars, first_run>>
    /\ UNCHANGED <<converter, input_file, data, max_file_size_kb,
                   max_items_per_file, verbose, cat_idx, chunk_idx, chunks,
                   dirs, files, exported_files, io_failures>>

\* os.makedirs(output_dir, exist_ok=True): an OSError leaves convert
MakeOutputDir ==
    /\ pc = "mkdir_out"
    /\ \E ok \in BOOLEAN :
        /\ MayFail(IF ok THEN "ok" ELSE "makedirs_failed")
        /\ pc' = IF ok THEN "get_items" ELSE "raised"
        /\ dirs' = IF ok THEN dirs \cup {OutputDir(converter)} ELSE dirs
        /\ io_failures' = IF ok THEN io_failures ELSE io_failures + 1
    /\ UNCHANGED <<searchVars, corpusVars, first_run>>
    /\ UNCHANGED <<converter, input_file, data, max_file_size_kb,
                   max_items_per_file, verbose, cat_idx, chunk_idx, chunks,
                   files, exported_files>>

\* all_items = self.data.get("context_items", []) (a JSON value that is no
\* object has no get: AttributeError), and optimize_data in the optimized converter
GetItems ==
    /\ pc = "get_items"
    /\ IF input_file.status = "not_object"
       THEN /\ pc' = "raised"
            /\ UNCHANGED <<data, cat_idx>>
       ELSE LET all_items == input_file.context_items
                exported == IF converter = "optimized"
                            THEN optimize_data(all_items) ELSE all_items
            IN /\ data' = exported
               /\ cat_idx' = 1
               /\ pc' = IF exported = <<>> THEN "summary" ELSE "export_mkdir"
    /\ UNCHANGED <<searchVars, corpusVars, first_run>>
    /\ UNCHANGED <<converter, input_file, max_file_size_kb, max_items_per_file,
                   verbose, chunk_idx, chunks, dirs, files, exported_files,
                   io_failures>>

\* export_split, top of the category loop: os.makedirs(category_dir) (outside
\* any try: an OSError leaves export_split and convert), then split_into_chunks
MakeCategoryDir ==
    /\ pc = "export_mkdir"
    /\ LET category == ExportCategories.keys[cat_idx]
           items == ExportCategories.items[category]
       IN \E ok \in BOOLEAN :
            /\ MayFail(IF ok THEN "ok" ELSE "makedirs_failed")
            /\ pc' = IF ok THEN "export_chunk" ELSE "raised"
            /\ dirs' = IF ok THEN dirs \cup {CategoryDir(converter, category)}
                       ELSE dirs
            /\ chunks' = IF ok
                         THEN split_into_chunks(items, max_file_size_kb,
                                                max_items_per_file)
                         ELSE chunks
            /\ chunk_idx' = IF ok THEN 1 ELSE chunk_idx
            /\ io_failures' = IF ok THEN io_failures ELSE io_failures + 1
    /\ UNCHANGED <<searchVars, corpusVars, first_run>>
    /\ UNCHANGED <<converter, input_file, data, max_file_size_kb,
                   max_items_per_file, verbose, cat_idx, files, exported_files>>

\* export_split, one turn of the chunk loop: export_json of chunk chunk_idx
ExportChunk ==
    /\ pc = "export_chunk"
    /\ LET category == ExportCategories.keys[cat_idx]
           filename == ChunkFileName(category, chunk_idx, Prefix(converter))
           filepath == PathJoin(CategoryDir(converter, category), filename)
       IN \E outcome \in IOOutcomes :
            export_json(ChunkContent(category, chunk_idx, chunks[chunk_idx],
                                     Len(chunks)),
                        filepath, outcome)
    /\ chunk_idx' = chunk_idx + 1
    /\ pc' = IF chunk_idx < Len(chunks) THEN "export_chunk" ELSE "export_index"
    /\ UNCHANGED <<searchVars, corpusVars, first_run>>
    /\ UNCHANGED <<converter, input_file, data, max_file_size_kb,
                   max_items_per_file, verbose, cat_idx, chunks>>

\* export_split, end of a category: export_json of the category index
ExportCategoryIndex ==
    /\ pc = "export_index"
    /\ LET category == ExportCategories.keys[cat_idx]
           items == ExportCategories.items[category]
           index_file == PathJoin(CategoryDir(converter, category),
                                  CategoryIndexName(category))
       IN \E outcome \in IOOutcomes :
            export_json(CategoryIndexContent(category, items, chunks),
                        index_file, outcome)
    /\ cat_idx' = cat_idx + 1
    /\ pc' = AfterCategory(cat_idx + 1)
    /\ UNCHANGED <<searchVars, corpusVars, first_run>>
    /\ UNCHANGED <<converter, input_file, data, max_file_size_kb,
                   max_items_per_file, verbose, chunk_idx, chunks>>

\* export_split, after the loop: show_export_summary unless verbose; it empties
\* exported_files
ExportSummary ==
    /\ pc = "summary"
    /\ exported_files' = IF verbose THEN exported_files ELSE <<>>
    /\ pc' = "main_index"
    /\ UNCHANGED <<searchVars, corpusVars, first_run>>
    /\ UNCHANGED <<converter, input_file, data, max_file_size_kb,
                   max_items_per_file, verbose, cat_idx, chunk_idx, chunks,
                   dirs, files, io_failures>>

\* create_main_index(output_dir, items, mode)
CreateMainIndex ==
    /\ pc = "main_index"
    /\ \E outcome \in IOOutcomes :
        export_json(MainIndexContent(data, Mode(converter), max_file_size_kb,
                                     max_items_per_file),
                    PathJoin(OutputDir(converter), MainIndexName), outcome)
    /\ pc' = "done"
    /\ UNCHANGED <<searchVars, corpusVars, first_run>>
    /\ UNCHANGED <<converter, input_file, data, max_file_size_kb,
                   max_items_per_file, verbose, cat_idx, chunk_idx, chunks>>

----------------------------------------------------------------------------
(* The inputs of the modelled export runs *)

\* the shapes of context item an exported list is made of
ExportItemKinds ==
    { [category |-> "methods", size |-> 500, content_len |-> 40,
       metadata |-> [syntax |-> "F()", parameters |-> <<>>]],
      [category |-> "methods", size |-> 1100, content_len |-> 60,
       metadata |-> [syntax |-> "", parameters |-> <<>>]],
      [category |-> "objects", size |-> 500, content_len |-> 60,
       metadata |-> [syntax |-> "", parameters |-> <<>>]],
      [category |-> NoKey, size |-> 500, content_len |-> 40,
       metadata |-> [syntax |-> "", parameters |-> <<>>]] }

\* a variant that goes on counting where an earlier run stopped
MakeId_CountsOn(category, k) ==
    (IF category = NoKey THEN "item" ELSE category) \o "_"
    \o ToString(k + IF first_run.ran THEN Len(first_run.data) ELSE 0)

\* f"{category}_{k}", the id format_for_context gives the k-th item
MakeId(category, k) ==
    (IF category = NoKey THEN "item" ELSE category) \o "_" \o ToString(k)

\* a list of item shapes turned into items, each with the id of its position
WithIds(kinds) ==
    [k \in 1..Len(kinds) |->
        [id |-> MakeId(kinds[k].category, k - 1),
         category |-> kinds[k].category,
         size |-> kinds[k].size,
         content_len |-> kinds[k].content_len,
         metadata |-> kinds[k].metadata]]

ExportInputs ==
    {[status |-> "ok", context_items |-> WithIds(kinds)] :
        kinds \in SeqsUpTo(ExportItemKinds, MaxExportItems)}
    \cup {[status |-> st, context_items |-> <<>>] :
            st \in {"missing", "malformed", "not_object"}}

InitExport ==
    /\ converter \in {"max", "optimized"}
    /\ input_file \in ExportInputs
    /\ data = <<>>
    /\ max_file_size_kb \in 1..MaxExportKb
    /\ max_items_per_file \in 1..MaxExportPerFile
    /\ verbose \in BOOLEAN
    /\ pc = "load"
    /\ cat_idx = 0
    /\ chunk_idx = 0
    /\ chunks = <<>>
    /\ dirs = {}
    /\ files = <<>>
    /\ exported_files = <<>>
    /\ io_failures = 0
    /\ first_run = NoRun
    /\ SearchIdle
    /\ CorpusIdle

NextExport ==
    \/ LoadData
    \/ MakeOutputDir
    \/ GetItems
    \/ MakeCategoryDir
    \/ ExportChunk
    \/ ExportCategoryIndex
    \/ ExportSummary
    \/ CreateMainIndex

SpecExport == InitExport /\ [][NextExport]_vars

----------------------------------------------------------------------------
(* The selectors on their own: optimize_data and create_optimized_version *)

\* the files create_optimized_version writes
OptimizedJson == <<"data", "1c_context_optimized.json">>
OptimizedTxt == <<"data", "1c_context_optimized.txt">>

\* what the steps of create_optimized_version after the selection come to:
\* the ratio divides by the number of loaded items, and neither open() is
\* inside a try
WriteOutcomes == {"ok", "json_failed", "txt_failed"}

\* optimized_data of create_optimized_version (generated_at left out);
\* categories is list(set(...)), in the order the set happens to have
OptimizedContent(selected, categories) ==
    [total_items |-> Len(selected),
     categories |-> categories,
     original_size |-> Len(input_file.context_items),
     context_items |-> selected]

\* optimize_data(items), called on the loaded items
OptimizeData ==
    /\ pc = "select"
    /\ converter = "optimized"
    /\ data' = optimize_data(input_file.context_items)
    /\ pc' = "selected"
    /\ UNCHANGED <<searchVars, corpusVars, first_run>>
    /\ UNCHANGED <<converter, input_file, max_file_size_kb, max_items_per_file,
                   verbose, cat_idx, chunk_idx, chunks, dirs, files,
                   exported_files, io_failures>>

\* create_optimized_version(): a context file that cannot be loaded, or whose
\* value has no 'context_items', is reported and the function returns; an item
\* without 'category' and an empty item list (division by zero) raise
CreateOptimizedVersion ==
    /\ pc = "select"
    /\ converter = "run"
    /\ IF input_file.status # "ok"
       THEN /\ pc' = "load_failed"
            /\ UNCHANGED <<data, files, io_failures>>
       ELSE IF \/ input_file.context_items = <<>>
               \/ \E k \in 1..Len(input_file.context_items) :
                     input_file.context_items[k].category = NoKey
       THEN /\ pc' = "raised"
            /\ UNCHANGED <<data, files, io_failures>>
       ELSE \E outcome \in WriteOutcomes,
               selected \in {create_optimized(input_file.context_items)} :
            \E categories \in Orders(Range(CategoryKeys(selected, <<>>))) :
            /\ MayFail(outcome)
            /\ data' = selected
            /\ pc' = IF outcome = "ok" THEN "selected" ELSE "raised"
            /\ io_failures' = IF outcome = "ok" THEN io_failures ELSE io_failures + 1
            /\ files' =
                 CASE outcome = "ok" ->
                        (OptimizedJson :> OptimizedContent(selected, categories))
                        @@ (OptimizedTxt :> [items |-> selected]) @@ files
                   [] outcome = "json_failed" -> files
                   [] outcome = "txt_failed" ->
                        (OptimizedJson :> OptimizedContent(selected, categories)) @@ files
    /\ UNCHANGED <<searchVars, corpusVars, first_run>>
    /\ UNCHANGED <<converter, input_file, max_file_size_kb, max_items_per_file,
                   verbose, cat_idx, chunk_idx, chunks, dirs, exported_files>>

\* the shapes of item the selectors are given: operators of three scores, an
\* object that outscores them, and a method
SelectKinds ==
    [plain  |-> [category |-> "operators", size |-> 500, content_len |-> 40,
                 metadata |-> [syntax |-> "F()", parameters |-> <<>>]],
     rich   |-> [category |-> "operators", size |-> 500, content_len |-> 40,
                 metadata |-> [syntax |-> "F()", parameters |-> <<>>,
                               example |-> "F()"]],
     bare   |-> [category |-> "operators", size |-> 500, content_len |-> 0,
                 metadata |-> [syntax |-> "", parameters |-> <<>>]],
     object |-> [category |-> "objects", size |-> 500, content_len |-> 60,
                 metadata |-> [syntax |-> "New T", parameters |-> <<>>,
                               methods |-> <<"Add", "Count">>]],
     method |-> [category |-> "methods", size |-> 500, content_len |-> 40,
                 metadata |-> [syntax |-> "", parameters |-> <<>>]]]

\* the limit the selector of a converter puts on operators
OperatorLimit(conv) ==
    IF conv = "run" THEN RunLimits.operators ELSE OptimizeLimits.operators

\* one operator short of the limit, all of one score
Filler(conv) == [k \in 1..(OperatorLimit(conv) - 1) |-> SelectKinds.plain]

\* the item lists handed to a selector: the filler, up to one item before it
\* and up to MaxSelectExtra items behind it
SelectInputs(conv) ==
    {[status |-> "ok", context_items |-> WithIds(head \o Filler(conv) \o tail)] :
        head \in SeqsUpTo({SelectKinds[n] : n \in DOMAIN SelectKinds}, 1),
        tail \in SeqsUpTo({SelectKinds[n] : n \in DOMAIN SelectKinds},
                         MaxSelectExtra)}
    \cup (IF conv = "run"
          THEN {[status |-> st, context_items |-> <<>>] :
                    st \in {"missing", "malformed", "not_object"}}
               \cup {[status |-> "ok", context_items |-> <<>>]}
          ELSE {})

InitSelect ==
    /\ converter \in {"optimized", "run"}
    /\ input_file \in SelectInputs(converter)
    /\ data = <<>>
    /\ max_file_size_kb = 0
    /\ max_items_per_file = 0
    /\ verbose = FALSE
    /\ pc = "select"
    /\ cat_idx = 0
    /\ chunk_idx = 0
    /\ chunks = <<>>
    /\ dirs = {}
    /\ files = <<>>
    /\ exported_files = <<>>
    /\ io_failures = 0
    /\ first_run = NoRun
    /\ SearchIdle
    /\ CorpusIdle

NextSelect ==
    \/ OptimizeData
    \/ CreateOptimizedVersion

SpecSelect == InitSelect /\ [][NextSelect]_vars

----------------------------------------------------------------------------
(* split_into_chunks on its own: any item list, any thresholds *)

\* serialized lengths of the items handed to the chunker (bytes)
ChunkItemSizes == {300, 600, 1100}

ChunkItemKinds ==
    { [category |-> "methods", size |-> sz, content_len |-> 40,
       metadata |-> [syntax |-> "", parameters |-> <<>>]] : sz \in ChunkItemSizes }

InitChunk ==
    /\ converter = "none"
    /\ input_file = [status |-> "ok", context_items |-> <<>>]
    /\ data \in {WithIds(kinds) : kinds \in SeqsUpTo(ChunkItemKinds, MaxChunkItems)}
    /\ max_file_size_kb \in (-1)..MaxFileSizeKb
    /\ max_items_per_file \in 0..MaxItemsPerFile
    /\ verbose = FALSE
    /\ pc = "split"
    /\ cat_idx = 0
    /\ chunk_idx = 0
    /\ chunks = <<>>
    /\ dirs = {}
    /\ files = <<>>
    /\ exported_files = <<>>
    /\ io_failures = 0
    /\ first_run = NoRun
    /\ SearchIdle
    /\ CorpusIdle

\* chunks = self.split_into_chunks(items)
SplitIntoChunks ==
    /\ pc = "split"
    /\ chunks' = split_into_chunks(data, max_file_size_kb, max_items_per_file)
    /\ pc' = "split_done"
    /\ UNCHANGED <<searchVars, corpusVars, first_run>>
    /\ UNCHANGED <<converter, input_file, data, max_file_size_kb,
                   max_items_per_file, verbose, cat_idx, chunk_idx, dirs, files,
                   exported_files, io_failures>>

NextChunk == SplitIntoChunks

SpecChunk == InitChunk /\ [][NextChunk]_vars

----------------------------------------------------------------------------
(* Chunking: item count, byte budget, partition *)

ByteBudget == max_file_size_kb * 1024

\* C1: with max_items_per_file >= 1, whatever max_file_size_kb is, every chunk
\* split_into_chunks returns holds at most max_items_per_file items.
C1_ChunkItemCount ==
    (pc = "split_done" /\ max_items_per_file >= 1) =>
        \A i \in 1..Len(chunks) : Len(chunks[i]) <= max_items_per_file

\* a list longer than the count ceiling was split and some chunk is full
C1_Witness ==
    /\ pc = "split_done"
    /\ max_items_per_file >= 1
    /\ Len(data) > max_items_per_file
    /\ Len(chunks) >= 2
    /\ \E i \in 1..Len(chunks) : Len(chunks[i]) = max_items_per_file

\* C2: every returned chunk of two or more items has a size estimate (the sum
\* of its items' serialized lengths) of at most max_file_size_kb*1024; only
\* single-item chunks may exceed the byte budget.
C2_MultiItemChunkWithinBudget ==
    pc = "split_done" =>
        \A i \in 1..Len(chunks) :
            Len(chunks[i]) >= 2 => ChunkSize(chunks[i]) <= ByteBudget

\* one result holds a multi-item chunk and a single-item chunk over the budget
C2_Witness ==
    /\ pc = "split_done"
    /\ \E i \in 1..Len(chunks) : Len(chunks[i]) >= 2
    /\ \E i \in 1..Len(chunks) :
        Len(chunks[i]) = 1 /\ ChunkSize(chunks[i]) > ByteBudget

\* C3: the returned chunks are non-empty and their concatenation, in order, is
\* exactly the input: nothing dropped, duplicated or reordered, also an item
\* that alone exceeds the byte budget.
C3_ChunksPartitionInput ==
    pc = "split_done" =>
        /\ Concat(chunks) = data
        /\ \A i \in 1..Len(chunks) : chunks[i] # <<>>

\* an input with an item that alone exceeds the budget was split in several chunks
C3_Witness ==
    /\ pc = "split_done"
    /\ Len(chunks) >= 2
    /\ \E k \in 1..Len(data) : ItemSize(data[k]) > ByteBudget /\ ByteBudget > 0
    /\ \E i \in 1..Len(chunks) : Len(chunks[i]) >= 2

----------------------------------------------------------------------------
(* Indices of an export *)

RECURSIVE SumOver(_, _)
SumOver(S, f) ==
    IF S = {} THEN 0
    ELSE LET x == CHOOSE y \in S : TRUE IN f[x] + SumOver(S \ {x}, f)

\* the chunk files standing in a category's directory
ChunkFilesOf(category) ==
    {p \in DOMAIN files :
        p[1] = CategoryDir(converter, category) /\ files[p].kind = "chunk"}

CategoryIndexPath(category) ==
    PathJoin(CategoryDir(converter, category), CategoryIndexName(category))

MainIndexPath == PathJoin(OutputDir(converter), MainIndexName)

IsWritten(path, kind) == path \in DOMAIN files /\ files[path].kind = kind

\* the export and the main index are finished and every write succeeded
ExportedCleanly == pc = "done" /\ io_failures = 0

NamesWrittenChunks(category, names) ==
    /\ Len(names) = Cardinality(ChunkFilesOf(category))
    /\ \A i \in 1..Len(names) :
        LET p == PathJoin(CategoryDir(converter, category), names[i])
        IN IsWritten(p, "chunk") /\ files[p].metadata.chunk = i

\* C5: after any export, with or without a filename prefix (every write having
\* succeeded), the filename list of each category index and the files list of
\* that category in the main index name exactly the chunk files written for
\* the category, in chunk order.
C5_IndicesNameWrittenFiles ==
    ExportedCleanly =>
        \A c \in Range(split_by_category(data).keys) :
            /\ NamesWrittenChunks(c, files[CategoryIndexPath(c)].chunks)
            /\ NamesWrittenChunks(c, files[MainIndexPath].categories[c].files)

----------------------------------------------------------------------------
(* Texts and their tokens.  A text is the sequence of its characters. *)

\* the characters of a string literal
Chars(s) == [i \in 1..Len(s) |-> SubSeq(s, i, i)]

\* the Latin letters, upper case and lower case in the same order
Letters == [upper |-> "ABCDEFGHIJKLMNOPQRSTUVWXYZ",
            lower |-> "abcdefghijklmnopqrstuvwxyz"]

\* A Cyrillic text, written by its transliteration: the Cyrillic letter that
\* transliterates to the Latin letter x is the character "x~", in the same
\* case; blanks, digits and punctuation are themselves.
Cyr(s) == [i \in 1..Len(s) |->
              IF \E k \in 1..26 : SubSeq(s, i, i) \in {SubSeq(Letters.upper, k, k),
                                                        SubSeq(Letters.lower, k, k)}
              THEN SubSeq(s, i, i) \o "~"
              ELSE SubSeq(s, i, i)]

\* str.lower() on one character, Latin or Cyrillic
LowerChar(c) ==
    LET letter == SubSeq(c, 1, 1)
    IN IF \E i \in 1..26 : SubSeq(Letters.upper, i, i) = letter
       THEN LET k == CHOOSE i \in 1..26 : SubSeq(Letters.upper, i, i) = letter
            IN SubSeq(Letters.lower, k, k) \o SubSeq(c, 2, Len(c))
       ELSE c

\* text.lower()
Lower(text) == [i \in 1..Len(text) |-> LowerChar(text[i])]

\* \w of the regular expressions: everything but blanks and punctuation here
IsWordChar(c) == c \notin {" ", ",", ".", "(", ")", ":", "<", ">"}

\* re.findall(r'\b\w+\b', text): the maximal runs of word characters, in
\* order; a run starts where no word character comes before and goes on to
\* the last word character in a row
WordEnd(text, i) ==
    CHOOSE j \in i..Len(text) :
        /\ \A k \in i..j : IsWordChar(text[k])
        /\ j = Len(text) \/ ~IsWordChar(text[j + 1])

Words(text) ==
    LET starts == SelectSeq([i \in 1..Len(text) |-> i],
                            LAMBDA i : /\ IsWordChar(text[i])
                                       /\ i = 1 \/ ~IsWordChar(text[i - 1]))
    IN [k \in 1..Len(starts) |-> SubSeq(text, starts[k], WordEnd(text, starts[k]))]

\* f"{a} {b}"
Spaced(a, b) == a \o <<" ">> \o b

\* str.isspace() on one character
IsSpace(c) == c \in {" ", "\n", "\t"}

RECURSIVE LStrip(_)
LStrip(text) ==
    IF text # <<>> /\ IsSpace(Head(text)) THEN LStrip(Tail(text)) ELSE text

RECURSIVE RStrip(_)
RStrip(text) ==
    IF text # <<>> /\ IsSpace(text[Len(text)])
    THEN RStrip(SubSeq(text, 1, Len(text) - 1))
    ELSE text

\* text.strip()
Strip(text) == RStrip(LStrip(text))

\* text[k:].startswith(sub), k counted from 0
StartsAt(text, sub, k) ==
    /\ k + Len(sub) <= Len(text)
    /\ SubSeq(text, k + 1, k + Len(sub)) = sub

\* text.find(sub, start): the least position from start on, or -1
Find(text, sub, start) ==
    LET hits == {k \in start..(Len(text) - Len(sub)) : StartsAt(text, sub, k)}
    IN IF hits = {} THEN -1
       ELSE CHOOSE k \in hits : \A h \in hits : k <= h

\* sub in text
Contains(sub, text) == Find(text, sub, 0) # -1

\* text[a:b] for 0 <= a
Slice(text, a, b) == SubSeq(text, a + 1, IF b < Len(text) THEN b ELSE Len(text))

\* text.replace(sub, new): every occurrence, left to right, not overlapping
RECURSIVE Replace(_, _, _)
Replace(text, sub, new) ==
    LET k == Find(text, sub, 0)
    IN IF k = -1 THEN text
       ELSE SubSeq(text, 1, k) \o new
            \o Replace(SubSeq(text, k + Len(sub) + 1, Len(text)), sub, new)

\* text.split(sep) for a separator of one character
RECURSIVE Split(_, _)
Split(text, sep) ==
    LET k == Find(text, <<sep>>, 0)
    IN IF k = -1 THEN <<text>>
       ELSE <<SubSeq(text, 1, k)>> \o Split(SubSeq(text, k + 2, Len(text)), sep)

\* ', '.join(parts) and the like
RECURSIVE Join(_, _)
Join(parts, sep) ==
    IF parts = <<>> THEN <<>>
    ELSE IF Len(parts) = 1 THEN parts[1]
    ELSE parts[1] \o sep \o Join(Tail(parts), sep)

----------------------------------------------------------------------------
(* create_search_index: BaseConverter and OptimizedContextConverter *)

\* a variant that appends without looking whether the id is already listed
AddId_NoDuplicateTest(index, token, id) ==
    IF token \notin DOMAIN index THEN (token :> <<id>>) @@ index
    ELSE [index EXCEPT ![token] = Append(@, id)]

\* if word not in search_index: search_index[word] = []
\* if id not in search_index[word]: search_index[word].append(id)
AddId(index, token, id) ==
    IF token \notin DOMAIN index THEN (token :> <<id>>) @@ index
    ELSE IF id \in Range(index[token]) THEN index
         ELSE [index EXCEPT ![token] = Append(@, id)]

\* the loop over the tokens of an item; a long list is taken half by half,
\* the second half once the first is through
RECURSIVE AddTokens(_, _, _)
AddTokens(index, tokens, id) ==
    IF tokens = <<>> THEN index
    ELSE IF Len(tokens) = 1 THEN AddId(index, tokens[1], id)
    ELSE CHOOSE whole \in
            {AddTokens(first, SubSeq(tokens, Len(tokens) \div 2 + 1, Len(tokens)), id) :
                first \in {AddTokens(index, SubSeq(tokens, 1, Len(tokens) \div 2), id)}} :
            TRUE

\* the words an item is filed under: those longer than 2 characters
LongWords(text) == SelectSeq(Words(text), LAMBDA word : Len(word) > 2)

\* BaseConverter: the tokens of one item, in the order the loop meets them
BaseTokens(item) == LongWords(Spaced(Lower(item.title), Lower(item.content)))

RECURSIVE BaseIndexLoop(_, _)
BaseIndexLoop(items, index) ==
    IF items = <<>> THEN index
    ELSE BaseIndexLoop(Tail(items),
                       AddTokens(index, BaseTokens(Head(items)), ItemId(Head(items))))

\* BaseConverter.create_search_index(items)
base_create_search_index(items) == BaseIndexLoop(items, <<>>)

\* the non-empty type names of an item's parameters, lower-cased
ParamTypeTokens(parameters) ==
    LET types == [i \in 1..Len(parameters) |-> SeqGet(parameters[i], "type")]
    IN [i \in 1..Len(SelectSeq(types, LAMBDA t : t # <<>>)) |->
            Lower(SelectSeq(types, LAMBDA t : t # <<>>)[i])]

\* OptimizedContextConverter: the tokens of one item, in the order it files them:
\* words of title and description, availability tags, version, category, types
OptimizedTokens(item) ==
    LongWords(Lower(Spaced(item.title, item.description)))
    \o [i \in 1..Len(item.availability) |-> Lower(item.availability[i])]
    \o (IF item.version # <<>> THEN <<item.version>> ELSE <<>>)
    \o (IF item.category # <<>> THEN <<item.category>> ELSE <<>>)
    \o ParamTypeTokens(item.parameters)

RECURSIVE OptimizedIndexLoop(_, _)
OptimizedIndexLoop(items, index) ==
    IF items = <<>> THEN index
    ELSE OptimizedIndexLoop(Tail(items),
                            AddTokens(index, OptimizedTokens(Head(items)),
                                      ItemId(Head(items))))

\* OptimizedContextConverter.create_search_index(items)
optimized_create_search_index(items) == OptimizedIndexLoop(items, <<>>)

\* item['id'] of an item without an id raises KeyError
RaisesKeyError(items) == \E i \in 1..Len(items) : items[i].id = NoKey

\* the items a search index is built from in the model
SearchItemKinds ==
    { \* the same word twice, in both cases, and under every other route too
      [id |-> "methods_0",
       title |-> <<"B","a","b">>,
       content |-> <<"b","a","b"," ","a","b",".","B","A","B">>,
       description |-> <<"B","A","B"," ","o","b","j">>,
       availability |-> << <<"B","a","b">>, <<"b","a","b">> >>,
       version |-> <<"b","a","b">>,
       category |-> <<"b","a","b">>,
       parameters |-> << [name |-> <<"a">>, type |-> <<"B","a","b">>],
                         [name |-> <<"b">>] >>],
      \* the id of the first one again, and a word of it
      [id |-> "methods_0",
       title |-> <<"a","b","a"," ","b","a","b">>,
       content |-> <<"a","b","a">>,
       description |-> <<>>,
       availability |-> <<>>,
       version |-> <<>>,
       category |-> <<"o","b","j">>,
       parameters |-> <<>>],
      [id |-> "objects_1",
       title |-> <<"O","b","j","(","b","a","b",")">>,
       content |-> <<>>,
       description |-> <<"a","b">>,
       availability |-> << <<"a","b","a">> >>,
       version |-> <<"B","a","b">>,
       category |-> <<"o","b","j">>,
       parameters |-> << [name |-> <<"a">>, type |-> <<"O","b","j">>] >>],
      \* short words only
      [id |-> "objects_2",
       title |-> <<"a","b"," ","b">>,
       content |-> <<"a",",","b">>,
       description |-> <<>>,
       availability |-> <<>>,
       version |-> <<>>,
       category |-> <<>>,
       parameters |-> <<>>],
      \* an item that has no id
      [id |-> NoKey,
       title |-> <<"b","a","b">>,
       content |-> <<>>,
       description |-> <<>>,
       availability |-> <<>>,
       version |-> <<>>,
       category |-> <<>>,
       parameters |-> <<>>] }

ConvIdle ==
    /\ converter = "none"
    /\ input_file = [status |-> "ok", context_items |-> <<>>]
    /\ data = <<>>
    /\ max_file_size_kb = 0
    /\ max_items_per_file = 0
    /\ verbose = FALSE
    /\ pc = "idle"
    /\ cat_idx = 0
    /\ chunk_idx = 0
    /\ chunks = <<>>
    /\ dirs = {}
    /\ files = <<>>
    /\ exported_files = <<>>
    /\ io_failures = 0
    /\ first_run = NoRun

InitSearch ==
    /\ ConvIdle
    /\ CorpusIdle
    /\ search_items \in SeqsUpTo(SearchItemKinds, MaxSearchItems)
    /\ search_index = <<>>
    /\ search_pc = "build"

\* BaseConverter.create_search_index(items)
CreateSearchIndexBase ==
    /\ search_pc = "build"
    /\ search_index' = base_create_search_index(search_items)
    /\ search_pc' = "built_base"
    /\ UNCHANGED <<search_items, convVars, corpusVars>>

\* OptimizedContextConverter.create_search_index(items)
CreateSearchIndexOptimized ==
    /\ search_pc = "build"
    /\ IF RaisesKeyError(search_items)
       THEN search_pc' = "raised" /\ UNCHANGED search_index
       ELSE /\ search_index' = optimized_create_search_index(search_items)
            /\ search_pc' = "built_optimized"
    /\ UNCHANGED <<search_items, convVars, corpusVars>>

NextSearch == CreateSearchIndexBase \/ CreateSearchIndexOptimized

SpecSearch == InitSearch /\ [][NextSearch]_vars

SearchBuilt == search_pc \in {"built_base", "built_optimized"}

ItemIds == {ItemId(search_items[i]) : i \in 1..Len(search_items)}

\* C6: in the search index built from an item list, by the base and by the
\* optimized builder, every id listed under a token is the id of an item of
\* the list, and no token's list holds the same id twice.
C6_SearchIndexIdsKnownAndUnique ==
    SearchBuilt =>
        \A token \in DOMAIN search_index :
            /\ Range(search_index[token]) \subseteq ItemIds
            /\ \A i, j \in 1..Len(search_index[token]) :
                i # j => search_index[token][i] # search_index[token][j]

\* an index in which a token lists two ids, built from a list in which one item
\* meets a token twice and two items of the same id share a token
C6_Witness ==
    /\ SearchBuilt
    /\ \E token \in DOMAIN search_index : Len(search_index[token]) >= 2
    /\ \E i, j \in 1..Len(search_items) :
        /\ i # j
        /\ search_items[i].id = search_items[j].id
        /\ search_items[i].content # search_items[j].content

----------------------------------------------------------------------------
(* A page's markup as BeautifulSoup hands it to the extractor: the children  *)
(* of the body, in document order.  An element holds pieces (texts and <a>   *)
(* elements); a <ul> holds items, each the pieces of one <li>.               *)

TextPiece(text) == [kind |-> "text", text |-> text, href |-> <<>>]
LinkPiece(text, href) == [kind |-> "a", text |-> text, href |-> href]

Node(name, class, pieces, items) ==
    [name |-> name, class |-> class, pieces |-> pieces, items |-> items]

PageTitle(text)   == Node("h1", "V8SH_pagetitle", <<TextPiece(text)>>, <<>>)
Chapter(text)     == Node("p", "V8SH_chapter", <<TextPiece(text)>>, <<>>)
Para(pieces)      == Node("p", "", pieces, <<>>)
VersionInfo(text) == Node("p", "V8SH_versionInfo", <<TextPiece(text)>>, <<>>)
Rubric(text)      == Node("div", "V8SH_rubric", <<TextPiece(text)>>, <<>>)
Br                == Node("br", "", <<>>, <<>>)
Text(text)        == Node("#text", "", <<TextPiece(text)>>, <<>>)
Link(text, href)  == Node("a", "", <<LinkPiece(text, href)>>, <<>>)
List(items)       == Node("ul", "", <<>>, items)
Table(text)       == Node("table", "", <<TextPiece(text)>>, <<>>)

\* isinstance(node, Tag): everything but a NavigableString
IsTag(node) == node.name # "#text"

\* node.name == 'p' and 'V8SH_chapter' in node.get('class', [])
IsChapter(node) == node.name = "p" /\ node.class = "V8SH_chapter"

\* the strings below a node, in document order
NodePieces(node) == node.pieces \o Concat(node.items)

\* get_text(strip=True) of some pieces: every string stripped, the empty dropped
RECURSIVE PiecesText(_)
PiecesText(pieces) ==
    IF pieces = <<>> THEN <<>>
    ELSE Strip(Head(pieces).text) \o PiecesText(Tail(pieces))

\* node.get_text(strip=True); for a NavigableString the same as node.strip()
GetText(node) == PiecesText(NodePieces(node))

\* the <a> elements at or below a node, in document order
Anchors(node) == SelectSeq(NodePieces(node), LAMBDA piece : piece.kind = "a")

\* soup.find_all('a')
AllAnchors(nodes) == Concat([i \in 1..Len(nodes) |-> Anchors(nodes[i])])

\* no filter on the name or on the class of the element looked for
AnyTag == "*"

\* nodes[i].find_next_sibling(name, class_=class): the index of the first
\* element after i of that name and class, or 0 for None
FindNextSibling(nodes, i, name, class) ==
    LET later == {j \in (i + 1)..Len(nodes) :
                    /\ IsTag(nodes[j])
                    /\ name \in {AnyTag, nodes[j].name}
                    /\ class \in {AnyTag, nodes[j].class}}
    IN IF later = {} THEN 0
       ELSE CHOOSE j \in later : \A k \in later : j <= k

\* soup.find_all('p', class_='V8SH_chapter'): the indexes of the chapter markers
Chapters(nodes) ==
    SelectSeq([i \in 1..Len(nodes) |-> i], LAMBDA i : IsChapter(nodes[i]))

\* the first chapter marker whose text contains the marker word, or 0
FirstChapterWith(nodes, marker) ==
    LET hits == SelectSeq(Chapters(nodes),
                          LAMBDA i : Contains(marker, GetText(nodes[i])))
    IN IF hits = <<>> THEN 0 ELSE hits[1]

----------------------------------------------------------------------------
(* The words the extractor and the classifier look for (Cyrillic,          *)
(* transliterated)                                                         *)

Marker ==
    [variant      |-> "Variant sintaksisa:",
     syntax_colon |-> "Sintaksis:",
     syntax       |-> "Sintaksis",
     variant_word |-> "Variant",
     parameters   |-> "Parametry:",
     description  |-> "Opisanie",
     availability |-> "Dostupnostx",
     return_value |-> "Vozvrahaemoe znahenie",
     version      |-> "Ispolxzovanie v versii",
     version_word |-> "versii",
     example      |-> "Primer",
     methods      |-> "Metody",
     collection   |-> "Elementy kollekcii",
     optional     |-> "(neobqzatelxnyj)",
     type         |-> "Tip:",
     \* the title markers of categorize_syntax
     function     |-> "Funkciq",
     method       |-> "Metod",
     property     |-> "Svojstvo",
     operator     |-> "Operator",
     keyword      |-> "Klyuchevoe slovo"]

----------------------------------------------------------------------------
(* extract_syntax_info: the syntax and its variants *)

\* current_variant = None
NoVariant == <<"<None>">>

\* `current_variant` as a condition: neither None nor the empty string
VariantOpen(current_variant) ==
    current_variant # NoVariant /\ current_variant # <<>>

\* text.replace('Variant sintaksisa:', '').strip()
VariantName(text) == Strip(Replace(text, Cyr(Marker.variant), <<>>))

\* The walk over next_sibling from a syntax marker: chapter markers are passed
\* over, every other node gives its stripped text, and the walk stops at the
\* first text that is neither empty nor 'Parametry:'.  `text` is syntax_text when
\* the loop is left, `at` the node it came from, `stopped` whether by break.
RECURSIVE SyntaxWalk(_, _, _, _)
SyntaxWalk(nodes, j, text, at) ==
    IF j > Len(nodes) THEN [stopped |-> FALSE, text |-> text, at |-> at]
    ELSE IF IsChapter(nodes[j]) THEN SyntaxWalk(nodes, j + 1, text, at)
    ELSE LET syntax_text == GetText(nodes[j])
         IN IF syntax_text # <<>> /\ syntax_text # Cyr(Marker.parameters)
            THEN [stopped |-> TRUE, text |-> syntax_text, at |-> j]
            ELSE SyntaxWalk(nodes, j + 1, syntax_text, j)

\* the loop over the chapter markers that collects the syntax
RECURSIVE SyntaxLoop(_, _, _, _, _)
SyntaxLoop(nodes, chapters, current_variant, syntax_variants, syntax) ==
    IF chapters = <<>>
    THEN [syntax_variants |-> syntax_variants, syntax |-> syntax]
    ELSE LET i    == Head(chapters)
             text == GetText(nodes[i])
             walk == SyntaxWalk(nodes, i + 1, <<>>, 0)
         IN IF Contains(Cyr(Marker.variant), text)
            THEN SyntaxLoop(nodes, Tail(chapters), VariantName(text),
                            syntax_variants, syntax)
            ELSE IF Contains(Cyr(Marker.syntax_colon), text) /\ VariantOpen(current_variant)
            THEN SyntaxLoop(nodes, Tail(chapters), current_variant,
                            IF walk.text # <<>>
                            THEN Append(syntax_variants,
                                        [variant_name |-> current_variant,
                                         syntax |-> walk.text])
                            ELSE syntax_variants,
                            syntax)
            ELSE IF /\ Contains(Cyr(Marker.syntax), text)
                    /\ ~Contains(Cyr(Marker.variant_word), text)
                    /\ ~VariantOpen(current_variant)
            THEN [syntax_variants |-> syntax_variants,
                  syntax |-> IF walk.stopped THEN walk.text ELSE syntax]
            ELSE SyntaxLoop(nodes, Tail(chapters), current_variant,
                            syntax_variants, syntax)

\* a variant that leaves the syntax of the plain marker in place
ExtractSyntax_KeepsPlain(nodes) ==
    LET found == SyntaxLoop(nodes, Chapters(nodes), NoVariant, <<>>, <<>>)
    IN IF found.syntax_variants # <<>>
       THEN [syntax |-> found.syntax, syntax_variants |-> found.syntax_variants]
       ELSE [syntax |-> found.syntax]

\* lines 277-333: the fields syntax and, when there are variants, syntax_variants
ExtractSyntax(nodes) ==
    LET found == SyntaxLoop(nodes, Chapters(nodes), NoVariant, <<>>, <<>>)
    IN IF found.syntax_variants # <<>>
       THEN [syntax |-> found.syntax_variants[1].syntax,
             syntax_variants |-> found.syntax_variants]
       ELSE [syntax |-> found.syntax]

----------------------------------------------------------------------------
(* extract_syntax_info: title, category and the one-paragraph sections *)

\* soup.find('h1', class_='V8SH_pagetitle') and its text, '' without one
ExtractTitle(nodes) ==
    LET i == FindNextSibling(nodes, 0, "h1", "V8SH_pagetitle")
    IN IF i = 0 THEN <<>> ELSE GetText(nodes[i])

\* the category the path of the page gives
PathCategory(filename) ==
    IF Contains(Chars("objects/"), filename) THEN Chars("object")
    ELSE IF Contains(Chars("tables/"), filename) THEN Chars("table")
    ELSE IF Contains(Chars("methods/"), filename) THEN Chars("method")
    ELSE IF Contains(Chars("properties/"), filename) THEN Chars("property")
    ELSE <<>>

\* the text of the next <p> sibling of the first chapter with the marker;
\* empty without such a chapter or such a sibling
SectionParagraph(nodes, marker) ==
    LET i == FirstChapterWith(nodes, marker)
        j == IF i = 0 THEN 0 ELSE FindNextSibling(nodes, i, "p", AnyTag)
    IN IF j = 0 THEN [found |-> FALSE, text |-> <<>>, at |-> 0]
       ELSE [found |-> TRUE, text |-> GetText(nodes[j]), at |-> j]

ExtractDescription(nodes) == SectionParagraph(nodes, Cyr(Marker.description)).text

ExtractReturnValue(nodes) == SectionParagraph(nodes, Cyr(Marker.return_value)).text

\* [item.strip() for item in availability_text.split(',')]
AvailabilityList(availability_text) ==
    LET parts == Split(availability_text, ",")
    IN [k \in 1..Len(parts) |-> Strip(parts[k])]

ExtractAvailability(nodes) ==
    LET section == SectionParagraph(nodes, Cyr(Marker.availability))
    IN IF section.found THEN AvailabilityList(section.text) ELSE <<>>

\* the text after 'versii' in the next <p class="V8SH_versionInfo"> sibling
ExtractVersion(nodes) ==
    LET i == FirstChapterWith(nodes, Cyr(Marker.version))
        j == IF i = 0 THEN 0
             ELSE FindNextSibling(nodes, i, "p", "V8SH_versionInfo")
        version_text == IF j = 0 THEN <<>> ELSE GetText(nodes[j])
    IN IF j # 0 /\ Contains(Cyr(Marker.version_word), version_text)
       THEN Strip(Slice(version_text, Find(version_text, Cyr(Marker.version_word), 0) + 6,
                        Len(version_text)))
       ELSE <<>>

\* the text of the next <table> after the first chapter with 'Primer'
ExtractExample(nodes) ==
    LET i == FirstChapterWith(nodes, Cyr(Marker.example))
        j == IF i = 0 THEN 0 ELSE FindNextSibling(nodes, i, "table", AnyTag)
    IN IF j = 0 THEN <<>> ELSE GetText(nodes[j])

----------------------------------------------------------------------------
(* extract_type_from_link *)

\* BSLSyntaxExtractor.type_mapping, its texts in transliteration
TypeMapping ==
    <<[key |-> "def_String", type |-> "String",
       description |-> "Strokovyj tip dannyh"],
      [key |-> "def_Number", type |-> "Number",
       description |-> "Chislovoj tip dannyh"],
      [key |-> "def_Boolean", type |-> "Boolean",
       description |-> "Logicheskij tip dannyh"],
      [key |-> "def_BooleanTrue", type |-> "Boolean",
       description |-> "Logicheskij tip dannyh (Istina)"],
      [key |-> "def_Date", type |-> "Date", description |-> "Tip dannyh Data"],
      [key |-> "def_Time", type |-> "Time", description |-> "Tip dannyh Vremq"],
      [key |-> "Array", type |-> "Array", description |-> "Massiv znachenij"],
      [key |-> "Structure", type |-> "Structure",
       description |-> "Struktura dannyh"],
      [key |-> "ValueTable", type |-> "ValueTable",
       description |-> "Tablica znachenij"],
      [key |-> "FormDataCollectionItem", type |-> "FormDataCollectionItem",
       description |-> "Element kollekcii dannyh formy"],
      [key |-> "FormDataTreeItem", type |-> "FormDataTreeItem",
       description |-> "Element dereva dannyh formy"]>>

\* text.split(sub)[-1]: what follows the last occurrence of sub
RECURSIVE AfterLast(_, _)
AfterLast(text, sub) ==
    IF Find(text, sub, 0) = -1 THEN text
    ELSE AfterLast(SubSeq(text, Find(text, sub, 0) + Len(sub) + 1, Len(text)), sub)

\* self.type_mapping[key] if key in self.type_mapping, else the type the key
\* names, described with the prefix
MappedType(key, prefix) ==
    IF \E k \in 1..Len(TypeMapping) : Chars(TypeMapping[k].key) = key
    THEN LET k == CHOOSE k \in 1..Len(TypeMapping) : Chars(TypeMapping[k].key) = key
         IN [type |-> Chars(TypeMapping[k].type),
             description |-> Cyr(TypeMapping[k].description)]
    ELSE [type |-> key, description |-> Cyr(prefix) \o key]

extract_type_from_link(link) ==
    IF link = <<>> THEN [type |-> <<>>, description |-> <<>>]
    ELSE IF Contains(Chars("def_"), link)
    THEN MappedType(AfterLast(link, Chars("def_")), "Bazovyj tip: ")
    ELSE IF Contains(Chars("objects/"), link)
    THEN MappedType(AfterLast(Replace(AfterLast(link, Chars("objects/")),
                                      Chars(".html"), <<>>),
                              Chars("/")),
                    "Obxekt: ")
    ELSE [type |-> <<>>, description |-> <<>>]

----------------------------------------------------------------------------
(* extract_syntax_info: the parameters, per variant *)

\* the TypeError that calling .strip() on a Tag raises: Tag.strip is None
TagNotCallable ==
    [type |-> "TypeError", message |-> "'NoneType' object is not callable"]

\* the rubric blocks between a 'Parametry:' marker and the next chapter marker
RECURSIVE ParamBlocks(_, _)
ParamBlocks(nodes, j) ==
    IF j > Len(nodes) \/ IsChapter(nodes[j]) THEN <<>>
    ELSE (IF nodes[j].name = "div" /\ nodes[j].class = "V8SH_rubric"
          THEN <<j>> ELSE <<>>) \o ParamBlocks(nodes, j + 1)

\* block.find_next('a'): the first <a> at or after the block's own content
FindNextAnchor(nodes, b) ==
    IF AllAnchors(SubSeq(nodes, b, Len(nodes))) = <<>> THEN [found |-> FALSE]
    ELSE [found |-> TRUE, a |-> AllAnchors(SubSeq(nodes, b, Len(nodes)))[1]]

\* whether the element after the block is a <br> with a node after it
HasDescription(nodes, next) ==
    next # 0 /\ nodes[next].name = "br" /\ next < Len(nodes)

\* desc_text.strip() is called on a Tag: the node right after the <br> that
\* follows the block is an element, not a string
DescriptionRaises(nodes, b) ==
    /\ HasDescription(nodes, FindNextSibling(nodes, b, AnyTag, AnyTag))
    /\ IsTag(nodes[FindNextSibling(nodes, b, AnyTag, AnyTag) + 1])

\* param_info['name']: the text between '<' and '>'
NameField(param_text, start, end) ==
    IF start > 0 /\ end > start
    THEN [name |-> Slice(param_text, start, end)] ELSE <<>>

\* param_info['type'] from type_text[type_start:type_end].strip()
TypeField(type_text, type_start, type_end) ==
    IF Contains(Cyr(Marker.type), type_text) /\ type_end > type_start
    THEN [type |-> Strip(Slice(type_text, type_start, type_end))] ELSE <<>>

\* param_info['link'] and, when the link names a type, 'type' and
\* 'type_description'
LinkFields(link, type_info) ==
    IF type_info.type # <<>>
    THEN [link |-> link, type |-> type_info.type,
          type_description |-> type_info.description]
    ELSE [link |-> link]

\* param_info of a block, given its text, the element after it and the first
\* link from it on.  Later assignments replace earlier ones: the type a link
\* names replaces the type read after 'Tip:'.
ParamFields(nodes, param_text, next, type_link) ==
    (IF type_link.found
     THEN LinkFields(type_link.a.href, extract_type_from_link(type_link.a.href))
     ELSE <<>>)
    \* the description: the string right after a <br> that follows the block
    @@ (IF HasDescription(nodes, next) /\ ~IsTag(nodes[next + 1])
        THEN [description |-> Strip(nodes[next + 1].pieces[1].text)]
        ELSE <<>>)
    \* the type, from the text of the element after the block
    @@ (IF next # 0
        THEN TypeField(GetText(nodes[next]),
                       Find(GetText(nodes[next]), Cyr(Marker.type), 0) + 4,
                       Find(GetText(nodes[next]), <<".">>,
                            Find(GetText(nodes[next]), Cyr(Marker.type), 0) + 4))
        ELSE <<>>)
    @@ [optional |-> Contains(Cyr(Marker.optional), param_text)]
    @@ NameField(param_text, Find(param_text, <<"<">>, 0) + 1,
                 Find(param_text, <<">">>, 0))

ParamInfo(nodes, b) ==
    ParamFields(nodes, GetText(nodes[b]), FindNextSibling(nodes, b, AnyTag, AnyTag),
                FindNextAnchor(nodes, b))

\* the blocks of one 'Parametry:' marker: the param_info of every named one
BlockParams(nodes, blocks) ==
    SelectSeq([k \in 1..Len(blocks) |-> ParamInfo(nodes, blocks[k])],
              LAMBDA info : "name" \in DOMAIN info)

\* parameters_by_variant, a dict in insertion order, is the sequence of its
\* entries [variant, parameters].
\* if current_variant not in parameters_by_variant: ... = []
OpenVariant(by_variant, variant) ==
    IF \A k \in 1..Len(by_variant) : by_variant[k].variant # variant
    THEN Append(by_variant, [variant |-> variant, parameters |-> <<>>])
    ELSE by_variant

\* a variant that appends the parameters to the list of every variant
AppendParams_ToEvery(by_variant, variant, params) ==
    [k \in 1..Len(by_variant) |->
        [by_variant[k] EXCEPT !.parameters = @ \o params]]

\* parameters_by_variant[current_variant].append(param_info), for each
AppendParams(by_variant, variant, params) ==
    [k \in 1..Len(by_variant) |->
        IF by_variant[k].variant = variant
        THEN [by_variant[k] EXCEPT !.parameters = @ \o params]
        ELSE by_variant[k]]

\* lines 438-448: parameters and, when a variant was declared,
\* parameters_by_variant
ParameterFields(by_variant) ==
    IF by_variant # <<>>
    THEN [parameters_by_variant |-> by_variant,
          parameters |-> Concat([k \in 1..Len(by_variant) |->
                                    by_variant[k].parameters])]
    ELSE [parameters |-> <<>>]

\* The loop over the chapter markers that collects the parameters, and one
\* pass of it: `i` is the marker, `text` its text, `variant` current_variant
\* and `by_variant` parameters_by_variant after the marker was tested for a
\* variant.  The loop stops with `raised` at the first block whose description
\* raises.
RECURSIVE ParametersLoop(_, _, _, _)
RECURSIVE ParametersPass(_, _, _, _, _, _)
ParametersPass(nodes, chapters, i, text, variant, by_variant) ==
    IF Contains(Cyr(Marker.parameters), text) /\ VariantOpen(variant)
    THEN IF \E k \in 1..Len(ParamBlocks(nodes, i + 1)) :
                DescriptionRaises(nodes, ParamBlocks(nodes, i + 1)[k])
         THEN [raised |-> TRUE, error |-> TagNotCallable]
         ELSE ParametersLoop(nodes, Tail(chapters), variant,
                             AppendParams(by_variant, variant,
                                          BlockParams(nodes, ParamBlocks(nodes, i + 1))))
    ELSE ParametersLoop(nodes, Tail(chapters), variant, by_variant)

ParametersLoop(nodes, chapters, current_variant, by_variant) ==
    IF chapters = <<>>
    THEN [raised |-> FALSE, fields |-> ParameterFields(by_variant)]
    ELSE IF Contains(Cyr(Marker.variant), GetText(nodes[Head(chapters)]))
    THEN ParametersPass(nodes, chapters, Head(chapters),
                        GetText(nodes[Head(chapters)]),
                        VariantName(GetText(nodes[Head(chapters)])),
                        OpenVariant(by_variant,
                                    VariantName(GetText(nodes[Head(chapters)]))))
    ELSE ParametersPass(nodes, chapters, Head(chapters),
                        GetText(nodes[Head(chapters)]), current_variant, by_variant)

\* lines 356-448: the fields the parameters give, or the exception raised
ExtractParameters(nodes) ==
    ParametersLoop(nodes, Chapters(nodes), NoVariant, <<>>)

----------------------------------------------------------------------------
(* extract_object_methods *)

\* name and english_name of a method text: split at the parentheses if it
\* has both
MethodEntry(method_text) ==
    IF Contains(<<"(">>, method_text) /\ Contains(<<")">>, method_text)
    THEN [name |-> Strip(Slice(method_text, 0, Find(method_text, <<"(">>, 0))),
          english_name |-> Strip(Slice(method_text,
                                       Find(method_text, <<"(">>, 0) + 1,
                                       Find(method_text, <<")">>, 0))),
          full_name |-> method_text]
    ELSE [name |-> method_text, english_name |-> <<>>, full_name |-> method_text]

\* the methods of the lists of all 'Metody' chapters: for each, the entries of
\* the non-empty <li> of the first <ul> among the following elements, unless
\* a chapter marker comes first
RECURSIVE ChapterMethods(_, _)
ChapterMethods(nodes, chapters) ==
    IF chapters = <<>> THEN <<>>
    ELSE LET i == Head(chapters)
             stops == {j \in (i + 1)..Len(nodes) :
                          nodes[j].name = "ul" \/ IsChapter(nodes[j])}
             j == IF stops = {} THEN 0
                  ELSE CHOOSE j \in stops : \A k \in stops : j <= k
             texts == [k \in 1..Len(nodes[j].items) |-> PiecesText(nodes[j].items[k])]
             named == SelectSeq(texts, LAMBDA method_text : method_text # <<>>)
         IN (IF /\ Contains(Cyr(Marker.methods), GetText(nodes[i]))
                /\ j # 0
                /\ nodes[j].name = "ul"
             THEN [k \in 1..Len(named) |-> MethodEntry(named[k])]
             ELSE <<>>)
            \o ChapterMethods(nodes, Tail(chapters))

\* method_key = f"{method_name}_{english_name}"
MethodKey(entry) == entry.name \o <<"_">> \o entry.english_name

\* the links into methods/ with a text, one entry per method_key
RECURSIVE LinkMethods(_, _, _)
LinkMethods(anchors, seen_methods, methods) ==
    IF anchors = <<>> THEN methods
    ELSE LET text == Strip(Head(anchors).text)
             entry == MethodEntry(text)
         IN IF /\ Contains(Chars("methods/"), Head(anchors).href)
               /\ text # <<>>
               /\ MethodKey(entry) \notin seen_methods
            THEN LinkMethods(Tail(anchors), seen_methods \cup {MethodKey(entry)},
                             Append(methods, entry))
            ELSE LinkMethods(Tail(anchors), seen_methods, methods)

extract_object_methods(nodes) ==
    LET methods == ChapterMethods(nodes, Chapters(nodes))
    IN IF methods # <<>> THEN methods
       ELSE LinkMethods(AllAnchors(nodes), {}, <<>>)

----------------------------------------------------------------------------
(* extract_collection_elements, for pages that do not hold the words        *)
(* 'Dlq kazhdogo': the second search, over the page's whole HTML, needs them *)

\* the elements between the chapter marker and the next one
RECURSIVE SectionElements(_, _)
SectionElements(nodes, j) ==
    IF j > Len(nodes) \/ IsChapter(nodes[j]) THEN <<>>
    ELSE (IF IsTag(nodes[j]) THEN <<nodes[j]>> ELSE <<>>)
         \o SectionElements(nodes, j + 1)

extract_collection_elements(nodes) ==
    LET i == FirstChapterWith(nodes, Cyr(Marker.collection))
        elements == IF i = 0 THEN <<>> ELSE SectionElements(nodes, i + 1)
        full_text == Concat([k \in 1..Len(elements) |-> GetText(elements[k])])
        \* the words of other sections, and the words that tell of usage
        stop_words == {Cyr(Marker.methods), Cyr(Marker.description), Cyr(Marker.availability),
                       Cyr("Sm. takzhe"), Cyr(Marker.version)}
        usage_words == {Cyr("Dlq kazhdogo"), Cyr("Iz"), Cyr("Cikl"),
                        Cyr("indeks"), Cyr("operator")}
        parts == Split(full_text, ".")
        stripped == [k \in 1..Len(parts) |-> Strip(parts[k])]
        sentences == SelectSeq(stripped, LAMBDA sentence :
                        /\ sentence # <<>>
                        /\ \A word \in stop_words : ~Contains(word, sentence))
        usage_info == SelectSeq(sentences, LAMBDA sentence :
                        \E word \in usage_words : Contains(word, sentence))
        full_description == <<sentences[1]>>
                            \o SelectSeq(Tail(sentences), LAMBDA sentence :
                                  \E word \in usage_words : Contains(word, sentence))
    IN IF elements = <<>> \/ sentences = <<>> THEN <<>>
       ELSE [description |-> Join(full_description, Chars(". "))]
            @@ (IF usage_info # <<>>
                THEN [usage |-> Join(usage_info, Chars(". "))] ELSE <<>>)

----------------------------------------------------------------------------
(* extract_syntax_info *)

\* BaseParser.parse_html_content: markup the parser rejects gives an empty soup
parse_html_content(page) == IF page.rejected THEN <<>> ELSE page.nodes

\* the links with a v8help:// target
ExtractLinks(nodes) ==
    LET anchors == SelectSeq(AllAnchors(nodes),
                             LAMBDA a : StartsAt(a.href, Chars("v8help://"), 0))
    IN [k \in 1..Len(anchors) |->
            [text |-> Strip(anchors[k].text), href |-> anchors[k].href]]

\* the keys every record without an error has
FullRecordKeys ==
    {"filename", "title", "syntax", "description", "parameters", "return_value",
     "example", "category", "links", "availability", "version", "methods",
     "collection_elements"}

\* the record `result` of the try block, given what the loop over the
\* parameters came to: the record, or the exception the loop raised
BuildResult(filename, soup, parameters) ==
    IF parameters.raised THEN [raised |-> TRUE, error |-> parameters.error]
    ELSE [raised |-> FALSE,
          record |->
             [filename |-> filename,
              title |-> ExtractTitle(soup),
              description |-> ExtractDescription(soup),
              return_value |-> ExtractReturnValue(soup),
              example |-> ExtractExample(soup),
              category |-> PathCategory(filename),
              links |-> ExtractLinks(soup),
              availability |-> ExtractAvailability(soup),
              version |-> ExtractVersion(soup),
              methods |-> extract_object_methods(soup),
              collection_elements |-> extract_collection_elements(soup)]
             @@ ExtractSyntax(soup)
             @@ parameters.fields]

\* the body of the try block: the record, or the exception it raises
ExtractBody(page) ==
    BuildResult(page.filename, parse_html_content(page),
                ExtractParameters(parse_html_content(page)))

\* except Exception as e: return {'filename': filename, 'error': str(e)}
ErrorRecord(filename, error) == [filename |-> filename, error |-> error]

\* a variant of the handler that names AttributeError alone
Caught_AttributeErrorOnly(error) == error.type = "AttributeError"

\* except Exception: whether the handler takes the exception
Caught(error) ==
    error.type \in {"TypeError", "AttributeError", "KeyError", "IndexError"}

\* try: ... except Exception as e: what the call comes to, given what the
\* body of the try block came to
TryExcept(filename, body) ==
    IF ~body.raised THEN [raised |-> FALSE, value |-> body.record]
    ELSE IF Caught(body.error)
    THEN [raised |-> FALSE, value |-> ErrorRecord(filename, body.error.message)]
    ELSE [raised |-> TRUE, error |-> body.error]

\* extract_syntax_info(content, filename): the record it returns, or the
\* exception that leaves it
extract_syntax_info(page) == TryExcept(page.filename, ExtractBody(page))

----------------------------------------------------------------------------
(* categorize_syntax *)

\* 'Word' in title or 'word' in title.lower()
TitleHas(title, cyrillic, english) ==
    Contains(cyrillic, title) \/ Contains(Chars(english), Lower(title))

\* a variant that tests the method marker before the function marker
Classify_MethodFirst(title, category) ==
    IF TitleHas(title, Cyr(Marker.method), "method") THEN "methods"
    ELSE IF TitleHas(title, Cyr(Marker.function), "function") THEN "functions"
    ELSE IF TitleHas(title, Cyr(Marker.property), "property") THEN "properties"
    ELSE IF TitleHas(title, Cyr(Marker.operator), "operator") THEN "operators"
    ELSE IF TitleHas(title, Cyr(Marker.keyword), "keyword") THEN "keywords"
    ELSE "objects"

\* the if/elif chain of categorize_syntax: the key of syntax_data it writes to
Classify(title, category) ==
    IF TitleHas(title, Cyr(Marker.function), "function") THEN "functions"
    ELSE IF TitleHas(title, Cyr(Marker.method), "method") THEN "methods"
    ELSE IF TitleHas(title, Cyr(Marker.property), "property") THEN "properties"
    ELSE IF TitleHas(title, Cyr(Marker.operator), "operator") THEN "operators"
    ELSE IF TitleHas(title, Cyr(Marker.keyword), "keyword") THEN "keywords"
    ELSE IF category = Chars("object") THEN "objects"
    ELSE "objects"

\* the empty dict
EmptyRecord == <<>>

\* a variant that returns early for the empty record only
IsSkipped_EmptyOnly(info) == info = EmptyRecord

\* not syntax_info or 'error' in syntax_info
IsSkipped(info) == info = EmptyRecord \/ "error" \in DOMAIN info

\* A category mapping is a dict in insertion order: the sequence of its
\* entries [title, record], no title twice.
DictHas(mapping, title) == \E k \in 1..Len(mapping) : mapping[k].title = title

DictGet(mapping, title) ==
    mapping[CHOOSE k \in 1..Len(mapping) : mapping[k].title = title].record

\* a variant that leaves the record of a title that is there as it is
DictSet_KeepsFirst(mapping, title, record) ==
    IF DictHas(mapping, title) THEN mapping
    ELSE Append(mapping, [title |-> title, record |-> record])

\* mapping[title] = record: in place for a title that is there, else at the end
DictSet(mapping, title, record) ==
    IF DictHas(mapping, title)
    THEN [k \in 1..Len(mapping) |->
            IF mapping[k].title = title THEN [title |-> title, record |-> record]
            ELSE mapping[k]]
    ELSE Append(mapping, [title |-> title, record |-> record])

\* categorize_syntax(syntax_info): the syntax_data after the call
categorize_syntax(corpus, info) ==
    IF IsSkipped(info) THEN corpus
    ELSE LET title == SeqGet(info, "title")
             category == SeqGet(info, "category")
             key == Classify(title, category)
         IN [corpus EXCEPT ![key] = DictSet(@, title, info)]

----------------------------------------------------------------------------
(* extract_all_syntax *)

\* An archive entry: its name, whether zip_file.read() succeeds on it, whether
\* the HTML parser rejects its markup, and the markup.
Entry(filename, nodes) ==
    [filename |-> filename, readable |-> TRUE, rejected |-> FALSE, nodes |-> nodes]

\* [f for f in self.zip_file.namelist() if f.endswith('.html')]
HtmlFiles(archive) ==
    SelectSeq(archive, LAMBDA entry :
                /\ Len(entry.filename) >= 5
                /\ StartsAt(entry.filename, Chars(".html"), Len(entry.filename) - 5))

\* html_files[:max_files], a negative max_files counting from the end
Limited(html_files, limit) ==
    IF limit >= 0
    THEN SubSeq(html_files, 1, IF limit < Len(html_files) THEN limit ELSE Len(html_files))
    ELSE SubSeq(html_files, 1, Len(html_files) + limit)

\* {category: len(items)} over syntax_data
Statistics(corpus) == [category \in DOMAIN corpus |-> Len(corpus[category])]

\* if not self.zip_file: return {}
NoArchive ==
    /\ extract_pc = "next"
    /\ ~zip_file.open
    /\ result' = EmptyRecord
    /\ extract_pc' = "done"
    /\ UNCHANGED <<run_max_files, zip_file, max_files, page_idx, html_page, syntax_info,
                   syntax_data, processed, convVars, searchVars>>

\* the head of the loop body: zip_file.read(filename); an exception of the
\* read is printed by the handler of the loop and the next entry is taken
ReadNextPage ==
    /\ extract_pc = "next"
    /\ zip_file.open
    /\ page_idx < Len(Limited(HtmlFiles(zip_file.entries), max_files))
    /\ LET entry == Limited(HtmlFiles(zip_file.entries), max_files)[page_idx + 1]
       IN IF entry.readable
          THEN /\ html_page' = entry
               /\ extract_pc' = "extract"
               /\ UNCHANGED page_idx
          ELSE /\ page_idx' = page_idx + 1
               /\ UNCHANGED <<html_page, extract_pc>>
    /\ UNCHANGED <<run_max_files, zip_file, max_files, syntax_info, syntax_data, processed,
                   result, convVars, searchVars>>

\* syntax_info = self.extract_syntax_info(content, filename); an exception
\* that left it would be printed by the handler of the loop
ExtractPage ==
    /\ extract_pc = "extract"
    /\ \E returned \in {extract_syntax_info(html_page)} :
          IF returned.raised
          THEN /\ page_idx' = page_idx + 1
               /\ extract_pc' = "next"
               /\ UNCHANGED syntax_info
          ELSE /\ syntax_info' = returned.value
               /\ extract_pc' = "categorize"
               /\ UNCHANGED page_idx
    /\ UNCHANGED <<run_max_files, zip_file, max_files, html_page, syntax_data,
                   processed, result, convVars, searchVars>>

\* self.categorize_syntax(syntax_info); processed += 1
CategorizePage ==
    /\ extract_pc = "categorize"
    /\ syntax_data' = categorize_syntax(syntax_data, syntax_info)
    /\ processed' = processed + 1
    /\ page_idx' = page_idx + 1
    /\ extract_pc' = "next"
    /\ UNCHANGED <<run_max_files, zip_file, max_files, html_page, syntax_info, result,
                   convVars, searchVars>>

\* after the loop: return {'statistics': stats, 'data': self.syntax_data}
FinishExtraction ==
    /\ extract_pc = "next"
    /\ zip_file.open
    /\ page_idx = Len(Limited(HtmlFiles(zip_file.entries), max_files))
    /\ result' = [statistics |-> Statistics(syntax_data), data |-> syntax_data]
    /\ extract_pc' = "done"
    /\ UNCHANGED <<run_max_files, zip_file, max_files, page_idx, html_page, syntax_info,
                   syntax_data, processed, convVars, searchVars>>

\* parser.add_argument('--max-files', type=int, default=1000)
DefaultMaxFiles == 1000

\* run_parser, `if max_files:`: whether --max-files is put on the command line
PassesMaxFiles(asked) == asked.given /\ asked.value # 0

\* args.max_files of the extractor's main for the command line of run_parser
ArgsMaxFiles(asked) ==
    IF PassesMaxFiles(asked) THEN asked.value ELSE DefaultMaxFiles

\* run_parser(zip_file, max_files) up to the call of extract_all_syntax in the
\* extractor's main: the command line, its parsing, the archive opened
RunParser ==
    /\ extract_pc = "run_parser"
    /\ max_files' = ArgsMaxFiles(run_max_files)
    /\ extract_pc' = "next"
    /\ UNCHANGED <<run_max_files, zip_file, page_idx, html_page, syntax_info,
                   syntax_data, processed, result, convVars, searchVars>>

\* extract_syntax_info(content, filename), called on its own
ExtractSyntaxInfo ==
    /\ extract_pc = "call_extract"
    /\ \E returned \in {extract_syntax_info(html_page)} :
          IF returned.raised
          THEN extract_pc' = "raised" /\ UNCHANGED syntax_info
          ELSE syntax_info' = returned.value /\ extract_pc' = "returned"
    /\ UNCHANGED <<run_max_files, zip_file, max_files, page_idx, html_page, syntax_data,
                   processed, result, convVars, searchVars>>

\* categorize_syntax(syntax_info), called on its own
CategorizeSyntax ==
    /\ extract_pc = "call_categorize"
    /\ syntax_data' = categorize_syntax(syntax_data, syntax_info)
    /\ extract_pc' = "returned"
    /\ UNCHANGED <<run_max_files, zip_file, max_files, page_idx, html_page, syntax_info,
                   processed, result, convVars, searchVars>>

----------------------------------------------------------------------------
(* The pages and records of the model *)

\* the entries archives are made of
CorpusEntries ==
    { \* a page of a function, with a plain syntax and a description
      Entry(Chars("objects/Abs.html"),
            <<PageTitle(Cyr(Marker.function) \o Chars(" Abs")), Text(Chars("\n")),
              Chapter(Cyr(Marker.syntax_colon)), Para(<<TextPiece(Chars("Abs(x)"))>>),
              Chapter(Cyr(Marker.description) \o Chars(":")),
              Para(<<TextPiece(Chars("The absolute value."))>>)>>),
      \* a page of a method, with one variant and its parameter
      Entry(Chars("methods/Add.html"),
            <<PageTitle(Cyr(Marker.method) \o Chars(" Add")),
              Chapter(Cyr(Marker.variant) \o Chars(" A")),
              Chapter(Cyr(Marker.syntax_colon)), Para(<<TextPiece(Chars("Add(x)"))>>),
              Chapter(Cyr(Marker.parameters)),
              Rubric(Chars("<x> ") \o Cyr(Marker.optional)), Br, Text(Chars(" the x "))>>),
      \* another page of the same title
      Entry(Chars("methods/Add2.html"),
            <<PageTitle(Cyr(Marker.method) \o Chars(" Add")),
              Chapter(Cyr(Marker.syntax)), Para(<<TextPiece(Chars("Add(x, y)"))>>)>>),
      \* a page whose parameter block is followed by <br> and then an element:
      \* the description is taken from a Tag and .strip() raises
      Entry(Chars("methods/Bad.html"),
            <<PageTitle(Cyr(Marker.method) \o Chars(" Bad")),
              Chapter(Cyr(Marker.variant) \o Chars(" A")),
              Chapter(Cyr(Marker.parameters)),
              Rubric(Chars("<x>")), Br,
              Link(Chars("String"), Chars("v8help://def_String"))>>),
      \* a page the HTML parser rejects
      [Entry(Chars("tables/Broken.html"), <<PageTitle(Chars("Broken"))>>)
          EXCEPT !.rejected = TRUE],
      \* an entry that is no page
      Entry(Chars("objects/img.png"), <<>>),
      \* an entry whose read raises
      [Entry(Chars("objects/Crc.html"), <<PageTitle(Chars("Crc"))>>)
          EXCEPT !.readable = FALSE] }

\* the openings and the nodes generated pages are made of
MarkupOpenings ==
    { <<>>,
      <<PageTitle(Cyr(Marker.method) \o Chars(" Add")),
        Chapter(Cyr(Marker.variant) \o Chars(" A")), Chapter(Cyr(Marker.parameters))>> }

MarkupNodes ==
    { Chapter(Cyr(Marker.parameters)), Chapter(Cyr(Marker.syntax_colon)),
      Chapter(Cyr(Marker.variant) \o Chars(" B")),
      Rubric(Chars("<x>")), Br, Text(Chars(" d ")),
      Link(Chars("String"), Chars("v8help://def_String")),
      Para(<<TextPiece(Chars("Tip: S. F(x)"))>>) }

GeneratedPages ==
    { Entry(Chars("x.html"), opening \o nodes) :
        opening \in MarkupOpenings,
        nodes \in SeqsUpTo(MarkupNodes, MaxMarkupNodes) }

\* the words titles are made of: every marker in Cyrillic and in English, in
\* the case the test looks for and in another one, and a word that is none
TitleWords ==
    { Cyr(Marker.function), Cyr(Marker.method), Cyr(Marker.property), Cyr(Marker.operator), Cyr(Marker.keyword),
      Lower(Cyr(Marker.function)), Lower(Cyr(Marker.method)),
      Chars("Function"), Chars("METHOD"), Chars("property"), Chars("Operator"),
      Chars("keyword"), Chars("Array") }

Titles ==
    {<<>>} \cup TitleWords
    \cup {first \o <<" ">> \o second : first \in TitleWords, second \in TitleWords}

\* the records handed to categorize_syntax on its own
ClassifyRecords ==
    { [filename |-> Chars("a.html"), title |-> title, category |-> category] :
        title \in Titles, category \in {<<>>, Chars("object"), Chars("method")} }
    \cup { [filename |-> Chars("a.html")],
           EmptyRecord,
           ErrorRecord(Chars("a.html"), TagNotCallable.message),
           [filename |-> Chars("a.html"), title |-> Cyr(Marker.function),
            category |-> <<>>, error |-> ""] }

\* a corpus that holds records already
LoadedSyntaxData ==
    categorize_syntax(
        categorize_syntax(EmptySyntaxData,
                          [filename |-> Chars("b.html"), title |-> Cyr(Marker.function),
                           category |-> <<>>]),
        [filename |-> Chars("c.html"), title |-> Chars("Array"),
         category |-> Chars("object")])

----------------------------------------------------------------------------
(* The specifications of the extractor *)

\* extract_all_syntax over an archive
InitCorpus ==
    /\ ConvIdle
    /\ SearchIdle
    /\ run_max_files = NoLimit
    /\ zip_file \in {NoZip} \cup {OpenZip(entries) :
                        entries \in SeqsUpTo(CorpusEntries, MaxArchiveEntries)}
    /\ max_files \in -1..MaxArchiveEntries
    /\ page_idx = 0
    /\ html_page = NoRecord
    /\ syntax_info = NoRecord
    /\ syntax_data = EmptySyntaxData
    /\ processed = 0
    /\ result = NoRecord
    /\ extract_pc = "next"

NextCorpus ==
    \/ NoArchive
    \/ ReadNextPage
    \/ ExtractPage
    \/ CategorizePage
    \/ FinishExtraction

SpecCorpus == InitCorpus /\ [][NextCorpus]_vars

\* extract_syntax_info on one page
InitExtract ==
    /\ ConvIdle
    /\ SearchIdle
    /\ run_max_files = NoLimit
    /\ zip_file = NoZip
    /\ max_files = 0
    /\ page_idx = 0
    /\ html_page \in GeneratedPages \cup CorpusEntries
    /\ syntax_info = NoRecord
    /\ syntax_data = EmptySyntaxData
    /\ processed = 0
    /\ result = NoRecord
    /\ extract_pc = "call_extract"

NextExtract == ExtractSyntaxInfo

SpecExtract == InitExtract /\ [][NextExtract]_vars

\* the blocks syntax sections are made of: a variant marker with a name and
\* one without, and syntax markers with and without the colon and their text
SyntaxBlocks ==
    { <<Chapter(Cyr(Marker.variant) \o Chars(" A"))>>,
      <<Chapter(Cyr(Marker.variant))>>,
      <<Chapter(Cyr(Marker.syntax_colon)), Para(<<TextPiece(Chars("F(x)"))>>)>>,
      <<Chapter(Cyr(Marker.syntax_colon)), Para(<<TextPiece(Chars("G(y)"))>>)>>,
      <<Chapter(Cyr(Marker.syntax)), Para(<<TextPiece(Chars("H(z)"))>>)>> }

SyntaxPages ==
    { Entry(Chars("s.html"), <<PageTitle(Chars("S"))>> \o Concat(blocks)) :
        blocks \in SeqsUpTo(SyntaxBlocks, MaxSyntaxBlocks) }

\* the segments availability texts are made of
Segments ==
    {<<>>, Chars(" "), Chars("Server"), Chars(" Thin client"), Chars(" Web client")}

AvailabilityTexts ==
    {Join(segments, Chars(",")) : segments \in SeqsUpTo(Segments, MaxSegments)}

AvailabilityPages ==
    { Entry(Chars("a.html"),
            <<PageTitle(Chars("A")), Chapter(Cyr(Marker.availability) \o Chars(":")),
              Para(<<TextPiece(text)>>)>>) :
        text \in AvailabilityTexts }

\* extract_syntax_info on one page with a syntax or an availability section
InitSyntax ==
    /\ ConvIdle
    /\ SearchIdle
    /\ run_max_files = NoLimit
    /\ zip_file = NoZip
    /\ max_files = 0
    /\ page_idx = 0
    /\ html_page \in SyntaxPages \cup AvailabilityPages
    /\ syntax_info = NoRecord
    /\ syntax_data = EmptySyntaxData
    /\ processed = 0
    /\ result = NoRecord
    /\ extract_pc = "call_extract"

SpecSyntax == InitSyntax /\ [][NextExtract]_vars

\* categorize_syntax on one record
InitClassify ==
    /\ ConvIdle
    /\ SearchIdle
    /\ run_max_files = NoLimit
    /\ zip_file = NoZip
    /\ max_files = 0
    /\ page_idx = 0
    /\ html_page = NoRecord
    /\ syntax_info \in ClassifyRecords
    /\ syntax_data \in {EmptySyntaxData, LoadedSyntaxData}
    /\ processed = 0
    /\ result = NoRecord
    /\ extract_pc = "call_categorize"

NextClassify == CategorizeSyntax

SpecClassify == InitClassify /\ [][NextClassify]_vars

\* an archive of one page more than the default of --max-files
LongArchive ==
    [k \in 1..(DefaultMaxFiles + 1) |->
        Entry(Chars("p") \o Chars(ToString(k)) \o Chars(".html"), <<>>)]

\* run_parser on an archive, with and without a limit
InitRun ==
    /\ ConvIdle
    /\ SearchIdle
    /\ run_max_files \in {NoLimit} \cup {GivenLimit(n) : n \in 0..MaxArchiveEntries}
    /\ zip_file \in {OpenZip(LongArchive)}
                    \cup {OpenZip(entries) : entries \in SeqsUpTo(CorpusEntries, 2)}
    /\ max_files = 0
    /\ page_idx = 0
    /\ html_page = NoRecord
    /\ syntax_info = NoRecord
    /\ syntax_data = EmptySyntaxData
    /\ processed = 0
    /\ result = NoRecord
    /\ extract_pc = "run_parser"

NextRun ==
    \/ RunParser
    \/ ReadNextPage
    \/ ExtractPage
    \/ CategorizePage
    \/ FinishExtraction

SpecRun == InitRun /\ [][NextRun]_vars

----------------------------------------------------------------------------
(* Claims about the extractor, the classifier and the corpus builder *)

\* C7: extract_syntax_info never raises to its caller: for every markup and
\* path it returns either a full record without an error field or, when a step
\* of the traversal fails, a record that holds filename and error and nothing
\* else.
C7_ExtractNeverRaises ==
    /\ extract_pc # "raised"
    /\ extract_pc = "returned" =>
        IF ExtractBody(html_page).raised
        THEN DOMAIN syntax_info = {"filename", "error"}
        ELSE /\ "error" \notin DOMAIN syntax_info
             /\ FullRecordKeys \subseteq DOMAIN syntax_info
             /\ syntax_info.filename = html_page.filename

\* a generated page whose traversal failed, and the error record returned
C7_Witness ==
    /\ extract_pc = "returned"
    /\ html_page \in GeneratedPages
    /\ \E k \in 1..Len(html_page.nodes) : DescriptionRaises(html_page.nodes, k)
    /\ "error" \in DOMAIN syntax_info

\* the pages extract_all_syntax goes through
PagesOfRun == Limited(HtmlFiles(zip_file.entries), max_files)

\* the pages of the run that were read and whose traversal raised
RaisingPagesOfRun ==
    {k \in 1..Len(PagesOfRun) :
        PagesOfRun[k].readable /\ ExtractBody(PagesOfRun[k]).raised}

\* the records the corpus holds, over all categories
CorpusRecords ==
    UNION {{syntax_data[category][k].record : k \in 1..Len(syntax_data[category])} :
              category \in DOMAIN syntax_data}

\* C8: for every page whose markup raises during traversal, after the corpus
\* build the corpus contains a record for that page with a non-empty error,
\* and the run completes with the failed pages counted apart from the
\* processed ones rather than with an exception.
C8_RaisingPagesKeptAndCounted ==
    (extract_pc = "done" /\ zip_file.open) =>
        /\ \A k \in RaisingPagesOfRun :
            \E record \in CorpusRecords :
                /\ record.filename = PagesOfRun[k].filename
                /\ "error" \in DOMAIN record
                /\ record.error # ""
        /\ processed + Cardinality(RaisingPagesOfRun) <= Len(PagesOfRun)

\* no category mapping holds a record that has an error
NoErrorInCorpus == \A record \in CorpusRecords : "error" \notin DOMAIN record

\* C9: classifying an error record leaves the corpus unchanged: after any
\* sequence of pages no category mapping of the corpus holds a record that has
\* an error, and every category mapping is the same before and after
\* categorize_syntax is called with an error record.
C9_ErrorRecordsLeaveCorpusUnchanged ==
    /\ []NoErrorInCorpus
    /\ [][(extract_pc = "categorize" /\ "error" \in DOMAIN syntax_info)
              => syntax_data' = syntax_data]_vars

\* an error record was classified after a page had entered the corpus
C9_Witness ==
    /\ extract_pc = "next"
    /\ processed >= 2
    /\ "error" \in DOMAIN syntax_info
    /\ CorpusRecords # {}

\* the categories with a title marker, in the order of their priority
MarkerPriority == <<"functions", "methods", "properties", "operators", "keywords">>

\* whether the title holds the marker of a category
HasMarkerOf(category, title) ==
    CASE category = "functions"  -> TitleHas(title, Cyr(Marker.function), "function")
      [] category = "methods"    -> TitleHas(title, Cyr(Marker.method), "method")
      [] category = "properties" -> TitleHas(title, Cyr(Marker.property), "property")
      [] category = "operators"  -> TitleHas(title, Cyr(Marker.operator), "operator")
      [] category = "keywords"   -> TitleHas(title, Cyr(Marker.keyword), "keyword")

\* the category of the first marker in priority order, objects without one
FirstMatch(title) ==
    LET marked == {k \in 1..Len(MarkerPriority) : HasMarkerOf(MarkerPriority[k], title)}
    IN IF marked = {} THEN "objects"
       ELSE MarkerPriority[CHOOSE k \in marked : \A j \in marked : k <= j]

\* C10: classification is a total deterministic function of a non-error record
\* with first-match priority functions, methods, properties, operators,
\* keywords, else objects; the record is inserted into exactly that one
\* category, under its title, and every other category stays as it was.
C10_FirstMatchClassification ==
    [][(extract_pc = "call_categorize" /\ syntax_info # EmptyRecord
            /\ "error" \notin DOMAIN syntax_info)
        => LET title == SeqGet(syntax_info, "title")
               category == FirstMatch(title)
           IN /\ extract_pc' = "returned"
              /\ DictHas(syntax_data'[category], title)
              /\ DictGet(syntax_data'[category], title) = syntax_info
              /\ \A k \in 1..Len(syntax_data[category]) :
                    syntax_data[category][k].title # title
                        => syntax_data'[category][k] = syntax_data[category][k]
              /\ \A other \in DOMAIN syntax_data \ {category} :
                    syntax_data'[other] = syntax_data[other]]_vars

\* a title with the method marker before the function marker went to functions
\* and to no other category
C10_Witness ==
    /\ extract_pc = "returned"
    /\ syntax_info # EmptyRecord
    /\ "title" \in DOMAIN syntax_info
    /\ "error" \notin DOMAIN syntax_info
    /\ syntax_info.title = Cyr(Marker.method) \o <<" ">> \o Chars("Function")
    /\ DictHas(syntax_data["functions"], syntax_info.title)
    /\ syntax_data["methods"] = <<>>

----------------------------------------------------------------------------
(* Claims about the limit of a run and about what the corpus keeps *)

\* the HTML pages of the archive
HtmlCount == Len(HtmlFiles(zip_file.entries))

\* C11: the corpus build goes through exactly the first min(limit, N) of the N
\* HTML pages of the archive, in listing order, when a limit is given, and
\* through all N pages when no limit is given (full mode).
C11_LimitOrAllPages ==
    extract_pc = "done" =>
        page_idx = IF run_max_files.given /\ run_max_files.value < HtmlCount
                   THEN run_max_files.value ELSE HtmlCount

\* the pages of the modelled archives that are read and parsed
ParsedPages ==
    {entry \in CorpusEntries :
        entry.readable /\ ~entry.rejected /\ HtmlFiles(<<entry>>) # <<>>}

\* extract_all_syntax() on the archives made of these pages
InitOverwrite ==
    /\ ConvIdle
    /\ SearchIdle
    /\ run_max_files = NoLimit
    /\ zip_file \in {OpenZip(entries) :
                        entries \in SeqsUpTo(ParsedPages, MaxArchiveEntries)}
    /\ max_files = DefaultMaxFiles
    /\ page_idx = 0
    /\ html_page = NoRecord
    /\ syntax_info = NoRecord
    /\ syntax_data = EmptySyntaxData
    /\ processed = 0
    /\ result = NoRecord
    /\ extract_pc = "next"

NextOverwrite ==
    \/ ReadNextPage
    \/ ExtractPage
    \/ CategorizePage
    \/ FinishExtraction

SpecOverwrite == InitOverwrite /\ [][NextOverwrite]_vars

\* what going through a page writes to the corpus, given what its extraction
\* came to: nothing for a page that is not read, that raises or is skipped
WriteOf(page, returned) ==
    IF page.readable /\ ~returned.raised /\ ~IsSkipped(returned.value)
    THEN [written |-> TRUE,
          title |-> SeqGet(returned.value, "title"),
          category |-> Classify(SeqGet(returned.value, "title"),
                                SeqGet(returned.value, "category")),
          record |-> returned.value]
    ELSE [written |-> FALSE]

\* the writes of the first n pages of the run
RECURSIVE WritesUpTo(_)
WritesUpTo(n) ==
    IF n = 0 THEN <<>>
    ELSE Append(WritesUpTo(n - 1),
                WriteOf(PagesOfRun[n], extract_syntax_info(PagesOfRun[n])))

\* the writes of the pages gone through so far
PageWrites == WritesUpTo(page_idx)

\* the pages that wrote to a category under a title
Writers(writes, category, title) ==
    {k \in 1..Len(writes) :
        /\ writes[k].written
        /\ writes[k].title = title
        /\ writes[k].category = category}

\* the titles of the writes and of the entries of a mapping
KnownTitles(writes, mapping) ==
    {writes[k].title : k \in {j \in 1..Len(writes) : writes[j].written}}
    \cup {mapping[k].title : k \in 1..Len(mapping)}

LastOf(S) == CHOOSE k \in S : \A j \in S : j <= k

LastWriteWins(writes) ==
    \A category \in DOMAIN syntax_data :
        /\ \A i, j \in 1..Len(syntax_data[category]) :
              syntax_data[category][i].title = syntax_data[category][j].title
                  => i = j
        /\ \A title \in KnownTitles(writes, syntax_data[category]) :
              IF Writers(writes, category, title) = {}
              THEN ~DictHas(syntax_data[category], title)
              ELSE /\ DictHas(syntax_data[category], title)
                   /\ DictGet(syntax_data[category], title)
                        = writes[LastOf(Writers(writes, category, title))].record

\* C12: after any sequence of processed pages each category of the corpus
\* holds at most one record per title, and for every category and title that
\* record is the one extracted from the last processed page that was
\* classified to the category under the title (last write wins).
C12_LastWriteWins == LastWriteWins(PageWrites)

\* two pages of one title were classified to one category
TwoWriters(writes) ==
    \E i, j \in 1..Len(writes) :
        /\ i < j
        /\ writes[i].written
        /\ j \in Writers(writes, writes[i].category, writes[i].title)

C12_Witness == extract_pc = "done" /\ TwoWriters(PageWrites)

----------------------------------------------------------------------------
(* Claims about the syntax and the availability of a record *)

\* the chapter markers of the page that hold the word of the syntax marker
SyntaxMarkers(nodes) ==
    SelectSeq(Chapters(nodes),
              LAMBDA i : Contains(Cyr(Marker.syntax), GetText(nodes[i])))

\* the first syntax marker of the page is a plain one, and no variant marker
\* comes before it
FirstSyntaxIsPlain(nodes) ==
    /\ SyntaxMarkers(nodes) # <<>>
    /\ ~Contains(Cyr(Marker.variant_word), GetText(nodes[SyntaxMarkers(nodes)[1]]))
    /\ \A i \in Range(Chapters(nodes)) :
          i < SyntaxMarkers(nodes)[1]
              => ~Contains(Cyr(Marker.variant), GetText(nodes[i]))

ReturnedRecord == extract_pc = "returned" /\ "error" \notin DOMAIN syntax_info

\* C19: every record the extractor returns without an error has, when
\* syntax_variants is present and non-empty, the syntax of the first variant
\* as its syntax; and a page whose first syntax marker is a plain one with no
\* variant marker before it yields no syntax_variants at all.
C19_SyntaxOfFirstVariant ==
    ReturnedRecord =>
        /\ ("syntax_variants" \in DOMAIN syntax_info
                /\ syntax_info.syntax_variants # <<>>)
              => syntax_info.syntax = syntax_info.syntax_variants[1].syntax
        /\ FirstSyntaxIsPlain(html_page.nodes)
              => "syntax_variants" \notin DOMAIN syntax_info

\* a record with two variants of different syntax; the first one is its syntax
C19_Witness ==
    /\ ReturnedRecord
    /\ "syntax_variants" \in DOMAIN syntax_info
    /\ Len(syntax_info.syntax_variants) = 2
    /\ syntax_info.syntax_variants[2].syntax # syntax_info.syntax

\* a page that opens with a plain syntax marker and goes on with a variant
\* and its syntax
PlainThenVariant ==
    /\ ReturnedRecord
    /\ FirstSyntaxIsPlain(html_page.nodes)
    /\ \E i \in Range(Chapters(html_page.nodes)) :
          Contains(Cyr(Marker.variant) \o Chars(" A"), GetText(html_page.nodes[i]))
    /\ syntax_info.syntax = Chars("H(z)")

\* the text of the availability section of the page
AvailabilityText(nodes) == SectionParagraph(nodes, Cyr(Marker.availability)).text

\* the segments of a text between its commas, trimmed, the empty ones left out
TrimmedSegments(text) ==
    SelectSeq([k \in 1..Len(Split(text, ",")) |-> Strip(Split(text, ",")[k])],
              LAMBDA segment : segment # <<>>)

\* C20: for every availability text the extracted availability list is the
\* comma-separated segments in order, each trimmed, with no empty-string
\* element (the list may be empty); "Server, Thin client, Web client" yields
\* exactly ["Server", "Thin client", "Web client"].
C20_AvailabilitySegments ==
    (ReturnedRecord /\ html_page \in AvailabilityPages) =>
        /\ \A k \in 1..Len(syntax_info.availability) :
              syntax_info.availability[k] # <<>>
        /\ syntax_info.availability = TrimmedSegments(AvailabilityText(html_page.nodes))
        /\ AvailabilityText(html_page.nodes) = Chars("Server, Thin client, Web client")
              => syntax_info.availability
                    = <<Chars("Server"), Chars("Thin client"), Chars("Web client")>>

\* the list of a text without an empty segment is the trimmed segments
AvailabilityOfFullSegments ==
    (ReturnedRecord /\ html_page \in AvailabilityPages) =>
        /\ (\A k \in 1..Len(syntax_info.availability) :
                syntax_info.availability[k] # <<>>)
              => syntax_info.availability
                    = TrimmedSegments(AvailabilityText(html_page.nodes))
        /\ AvailabilityText(html_page.nodes) = Chars("Server, Thin client, Web client")
              => syntax_info.availability
                    = <<Chars("Server"), Chars("Thin client"), Chars("Web client")>>

\* the three-segment text of the scenario was extracted
ScenarioExtracted ==
    /\ ReturnedRecord
    /\ AvailabilityText(html_page.nodes) = Chars("Server, Thin client, Web client")

----------------------------------------------------------------------------
(* Claims about the selectors *)

\* the score and the limit of the selector that ran, and the priority its
\* code gives a category
ScoreIn(conv, item) == IF conv = "run" THEN run_score(item) ELSE score_item(item)

LimitIn(conv, category) ==
    LimitOf(IF conv = "run" THEN RunLimits ELSE OptimizeLimits, category)

PriorityIn(conv, category) ==
    IF conv = "run" THEN PriorityOf(category)
    ELSE IF category \in DOMAIN OptimizePriorities
    THEN OptimizePriorities[category] ELSE 999

PositionIn(items, item) == CHOOSE k \in 1..Len(items) : items[k] = item

\* what the claim asks of the items kept of one category
KeepsTop(conv, given, kept, limit) ==
    /\ Len(kept) = IF Len(given) < limit THEN Len(given) ELSE limit
    /\ Range(kept) \subseteq Range(given)
    /\ \A i \in 1..Len(given), k \in 1..Len(kept) :
          given[i] \notin Range(kept)
              => ScoreIn(conv, given[i]) <= ScoreIn(conv, kept[k])
    /\ \A i, j \in 1..Len(given) :
          (/\ i < j
           /\ ScoreIn(conv, given[i]) = ScoreIn(conv, given[j])
           /\ given[j] \in Range(kept))
              => /\ given[i] \in Range(kept)
                 /\ PositionIn(kept, given[i]) < PositionIn(kept, given[j])

\* C13: for every category with n input items and per-category limit L the
\* selector keeps exactly min(n, L) items of the category, no dropped item
\* scores strictly higher than a kept item of the same category, and among
\* items of equal score the one earlier in the input is kept first and
\* appears first in the output.
C13_SelectorKeepsTop ==
    pc = "selected" =>
        \A category \in {ItemCategory(input_file.context_items[k]) :
                            k \in 1..Len(input_file.context_items)} :
            KeepsTop(converter,
                     CategoryItems(input_file.context_items, category),
                     CategoryItems(data, category),
                     LimitIn(converter, category))

\* a selection from more operators than the limit, in which an item was
\* dropped for one of its score that came earlier
C13_Witness ==
    /\ pc = "selected"
    /\ Len(CategoryItems(input_file.context_items, "operators"))
          > LimitIn(converter, "operators")
    /\ \E i, j \in 1..Len(input_file.context_items) :
          /\ i < j
          /\ input_file.context_items[i].category = "operators"
          /\ input_file.context_items[j].category = "operators"
          /\ ScoreIn(converter, input_file.context_items[i])
                = ScoreIn(converter, input_file.context_items[j])
          /\ input_file.context_items[i] \in Range(data)
          /\ input_file.context_items[j] \notin Range(data)

\* C14: the selector's output lists the categories in priority order (all
\* kept items of a higher-priority category before any item of a
\* lower-priority one), and within each category the items in
\* score-descending order.
C14_PriorityThenScore ==
    pc = "selected" =>
        \A i, j \in 1..Len(data) :
            i < j =>
                /\ PriorityIn(converter, ItemCategory(data[i]))
                      <= PriorityIn(converter, ItemCategory(data[j]))
                /\ ItemCategory(data[i]) = ItemCategory(data[j])
                      => ScoreIn(converter, data[i]) >= ScoreIn(converter, data[j])

\* the output of create_optimized_version is in that order
RunOutputInPriorityOrder == converter = "run" => C14_PriorityThenScore

\* within each category the output of either selector descends in score
ScoreDescendingWithinCategory ==
    pc = "selected" =>
        \A i, j \in 1..Len(data) :
            (i < j /\ ItemCategory(data[i]) = ItemCategory(data[j]))
                => ScoreIn(converter, data[i]) >= ScoreIn(converter, data[j])


----------------------------------------------------------------------------
(* ContextConverter: the corpus turned into context items *)

\* the keys of the corpus file, in the order __init__ of the extractor puts
\* them and export_to_json writes them
CategoryOrder ==
    <<"objects", "methods", "properties", "functions", "operators", "keywords">>

\* A text of the corpus as the string the items keep it as.
RECURSIVE Str(_)
Str(chars) == IF chars = <<>> THEN "" ELSE Head(chars) \o Str(Tail(chars))

\* re.sub(r'\s+', ' ', text): the first blank of a run becomes " ", the others go
CollapseBlanks(text) ==
    SelectSeq([i \in 1..Len(text) |->
                  IF ~IsSpace(text[i]) THEN text[i]
                  ELSE IF i > 1 /\ IsSpace(text[i - 1]) THEN "" ELSE " "],
              LAMBDA c : c # "")

\* re.sub(r'<[^>]+>', '', text): a "<" with the next ">" right behind it is
\* no tag
RECURSIVE DropTags(_)
DropTags(text) ==
    LET open  == Find(text, <<"<">>, 0)
        close == IF open = -1 THEN -1 ELSE Find(text, <<">">>, open + 1)
    IN IF open = -1 \/ close = -1 THEN text
       ELSE IF close = open + 1
       THEN SubSeq(text, 1, open + 1) \o DropTags(SubSeq(text, open + 2, Len(text)))
       ELSE SubSeq(text, 1, open) \o DropTags(SubSeq(text, close + 2, Len(text)))

\* BaseConverter.clean_text
clean_text(text) ==
    IF text = <<>> THEN <<>> ELSE DropTags(Strip(CollapseBlanks(text)))

\* The fences of a code block, a line of three backticks (and "bsl" where the
\* block opens): the backtick is written as an apostrophe, which a string
\* literal can hold.
CodeOpen == Chars("\n'''bsl\n")
CodeClose == Chars("\n'''")

\* the content parts of the syntax: the variants, or else the plain syntax
SyntaxParts(info) ==
    IF SeqGet(info, "syntax_variants") # <<>>
    THEN <<Chars("\n## ") \o Cyr(Marker.syntax)>>
         \o [k \in 1..Len(info.syntax_variants) |->
                Chars("\n### ") \o info.syntax_variants[k].variant_name
                \o CodeOpen \o info.syntax_variants[k].syntax
                \o CodeClose]
    ELSE IF SeqGet(info, "syntax") # <<>>
    THEN <<Chars("\n## ") \o Cyr(Marker.syntax) \o CodeOpen
           \o info.syntax \o CodeClose>>
    ELSE <<>>

\* param_line of a parameter listed under its variant
ParamLine(param) ==
    Chars("- ") \o param.name \o <<" ">>
    \o (IF param.optional THEN Cyr(Marker.optional) ELSE Cyr("(obqzatelxnyj)"))
    \o (IF SeqGet(param, "type") # <<>> THEN Chars(": ") \o param.type ELSE <<>>)
    \o (IF SeqGet(param, "description") # <<>>
        THEN Chars(" - ") \o param.description ELSE <<>>)

\* the content parts of the parameters: by variant, or else the plain list
ParameterParts(info) ==
    IF SeqGet(info, "parameters_by_variant") # <<>>
    THEN <<Chars("\n## ") \o Cyr("Parametry")>>
         \o Concat([k \in 1..Len(info.parameters_by_variant) |->
                <<Chars("\n### ") \o info.parameters_by_variant[k].variant>>
                \o [p \in 1..Len(info.parameters_by_variant[k].parameters) |->
                        ParamLine(info.parameters_by_variant[k].parameters[p])]])
    ELSE IF SeqGet(info, "parameters") # <<>>
    THEN <<Chars("\n## ") \o Cyr("Parametry")>>
         \o [p \in 1..Len(info.parameters) |->
                Chars("- ") \o info.parameters[p].name]
    ELSE <<>>

\* a content part made of a heading and a cleaned text, when the record has
\* the text
TextPart(info, key, heading, before, after) ==
    IF SeqGet(info, key) # <<>>
    THEN <<Chars("\n## ") \o Cyr(heading) \o before \o clean_text(info[key])
           \o after>>
    ELSE <<>>

\* a variant that lists the parameters ahead of the description
ContentParts_ParametersFirst(title, info) ==
    <<Chars("# ") \o title>>
    \o SyntaxParts(info)
    \o ParameterParts(info)
    \o TextPart(info, "description", Marker.description, <<"\n">>, <<>>)
    \o TextPart(info, "return_value", Marker.return_value, <<"\n">>, <<>>)
    \o TextPart(info, "example", Marker.example, CodeOpen, CodeClose)

\* content_parts of format_for_context
ContentParts(title, info) ==
    <<Chars("# ") \o title>>
    \o SyntaxParts(info)
    \o TextPart(info, "description", Marker.description, <<"\n">>, <<>>)
    \o ParameterParts(info)
    \o TextPart(info, "return_value", Marker.return_value, <<"\n">>, <<>>)
    \o TextPart(info, "example", Marker.example, CodeOpen, CodeClose)

\* len(json.dumps(item, ensure_ascii=False)) of a formatted item: the keys and
\* punctuation of an item of empty texts come to 149 characters, those of a
\* parameter to 50; the texts add their lengths (escapes and the further keys
\* of a parameter are not counted)
JsonLen(id, title, category, content, info) ==
    149 + Len(id) + Len(title) + Len(category) + Len(content)
    + Len(SeqGet(info, "filename")) + Len(SeqGet(info, "syntax"))
    + Len(SeqGet(info, "return_value"))
    + SumSeq([p \in 1..Len(SeqGet(info, "parameters")) |->
                50 + Len(info.parameters[p].name)])

\* the item with its content and its serialized size
FormattedItem(id, title, category, content, info) ==
    [id |-> id,
     title |-> title,
     category |-> category,
     content |-> content,
     content_len |-> Len(content),
     size |-> JsonLen(id, title, category, content, info),
     metadata |-> [filename |-> Str(SeqGet(info, "filename")),
                   syntax |-> Str(SeqGet(info, "syntax")),
                   parameters |-> SeqGet(info, "parameters"),
                   return_value |-> Str(SeqGet(info, "return_value")),
                   links |-> SeqGet(info, "links")]]

\* format_for_context(title, info, category), context_data being the items
\* formatted so far
format_for_context(title, info, category, context_data) ==
    FormattedItem(MakeId(category, Len(context_data)), title, category,
                  Join(ContentParts(title, info), <<"\n">>), info)

\* isinstance(info, dict) and not info.get('error')
IsFormatted(info) == ~("error" \in DOMAIN info /\ Len(info.error) > 0)

\* a variant that numbers the items of each category from zero
RECURSIVE FormatItems_CountsPerCategory(_, _, _)
FormatItems_CountsPerCategory(category, mapping, context_data) ==
    IF mapping = <<>> THEN context_data
    ELSE FormatItems_CountsPerCategory(category, Tail(mapping),
            IF IsFormatted(Head(mapping).record)
            THEN Append(context_data,
                        format_for_context(Head(mapping).title, Head(mapping).record,
                                           category,
                                           SelectSeq(context_data,
                                               LAMBDA item : item.category = category)))
            ELSE context_data)

\* the loop over the titles of a category
RECURSIVE FormatItems(_, _, _)
FormatItems(category, mapping, context_data) ==
    IF mapping = <<>> THEN context_data
    ELSE FormatItems(category, Tail(mapping),
            IF IsFormatted(Head(mapping).record)
            THEN Append(context_data,
                        format_for_context(Head(mapping).title, Head(mapping).record,
                                           category, context_data))
            ELSE context_data)

\* the loop over the categories of the loaded corpus
RECURSIVE FormatCategories(_, _, _)
FormatCategories(corpus, categories, context_data) ==
    IF categories = <<>> THEN context_data
    ELSE FormatCategories(corpus, Tail(categories),
            FormatItems(Head(categories), corpus[Head(categories)], context_data))

\* convert_to_context() on a corpus that was loaded
convert_to_context(corpus) == FormatCategories(corpus, CategoryOrder, <<>>)

----------------------------------------------------------------------------
(* ContextConverter.convert, and the steps that read what it wrote *)

\* the files convert() writes by default
ContextPaths ==
    [json         |-> <<"data", "1c_context.json">>,
     txt          |-> <<"data", "1c_context.txt">>,
     search_index |-> <<"data", "1c_search_index.json">>]

\* the files after export_json or export_text of a content ended with outcome
Written(fs, path, content, outcome) ==
    CASE outcome = "ok" -> (path :> content) @@ fs
      [] outcome = "open_failed" -> fs
      [] outcome = "dump_failed" -> (path :> PartialContent) @@ fs

\* what the three exports of convert() write (generated_at left out);
\* categories is list(set(...)), in the order the set happens to have
ContextContents(context_data, categories) ==
    [json |-> [kind |-> "context",
               total_items |-> Len(context_data),
               categories |-> categories,
               context_items |-> context_data],
     txt |-> [kind |-> "text",
              contents |-> [k \in 1..Len(context_data) |-> context_data[k].content]],
     search_index |-> [kind |-> "search_index",
                       total_items |-> Len(context_data),
                       index |-> base_create_search_index(context_data)]]

\* the three exports, one after the other
ExportContext(contents, outcomes) ==
    /\ Cardinality({f \in DOMAIN outcomes : outcomes[f] # "ok"}) <= MaxIOFailures
    /\ first_run.ran => \A f \in DOMAIN outcomes : outcomes[f] = "ok"
    /\ io_failures' = Cardinality({f \in DOMAIN outcomes : outcomes[f] # "ok"})
    /\ files' = Written(Written(Written(files, ContextPaths.json, contents.json,
                                        outcomes.json),
                                ContextPaths.txt, contents.txt, outcomes.txt),
                        ContextPaths.search_index, contents.search_index,
                        outcomes.search_index)
    /\ dirs' = IF \A f \in DOMAIN outcomes : outcomes[f] = "open_failed"
               THEN dirs ELSE dirs \cup {"data"}
    /\ exported_files' =
          SelectSeq(<<ContextPaths.json, ContextPaths.txt, ContextPaths.search_index>>,
                    LAMBDA path : \E f \in DOMAIN outcomes :
                                    ContextPaths[f] = path /\ outcomes[f] = "ok")

\* convert(): a corpus file that cannot be loaded gives no items, and without
\* items convert returns before it writes; a JSON value that is no object has
\* no items(): AttributeError
ContextConvert ==
    /\ pc = "convert"
    /\ converter = "context"
    /\ IF input_file.status \in {"missing", "malformed", "not_object"}
       THEN /\ pc' = IF input_file.status = "not_object" THEN "raised"
                     ELSE "load_failed"
            /\ UNCHANGED <<data, dirs, files, exported_files, io_failures>>
       ELSE \E context_data \in {convert_to_context(syntax_data)} :
            /\ data' = context_data
            /\ IF context_data = <<>>
               THEN /\ pc' = "no_data"
                    /\ UNCHANGED <<dirs, files, exported_files, io_failures>>
               ELSE /\ pc' = "converted"
                    /\ \E outcomes \in [DOMAIN ContextPaths -> IOOutcomes],
                          categories \in Orders(Range(CategoryKeys(context_data, <<>>))) :
                          ExportContext(ContextContents(context_data, categories),
                                        outcomes)
    /\ UNCHANGED <<searchVars, corpusVars, first_run>>
    /\ UNCHANGED <<converter, input_file, max_file_size_kb, max_items_per_file,
                   verbose, cat_idx, chunk_idx, chunks>>

\* what load_data of a later step finds at the path of the context file
ContextFileRead(fs) ==
    IF ContextPaths.json \notin DOMAIN fs
    THEN [status |-> "missing", context_items |-> <<>>]
    ELSE IF fs[ContextPaths.json] = PartialContent
    THEN [status |-> "malformed", context_items |-> <<>>]
    ELSE [status |-> "ok", context_items |-> fs[ContextPaths.json].context_items]

\* The next step is started on data/1c_context.json: a split converter is
\* constructed (BaseConverter.__init__ with an empty exported_files), or
\* run.py --optimized is called.  A second run takes the step the first took.
StartConverter ==
    /\ pc = "converted"
    /\ \E conv \in {"max", "optimized", "run"} :
        /\ first_run.ran => conv = first_run.converter
        /\ converter' = conv
        /\ pc' = IF conv = "run" THEN "select" ELSE "load"
    /\ input_file' = ContextFileRead(files)
    /\ data' = <<>>
    /\ exported_files' = <<>>
    /\ UNCHANGED <<searchVars, corpusVars, first_run>>
    /\ UNCHANGED <<max_file_size_kb, max_items_per_file, verbose, cat_idx,
                   chunk_idx, chunks, dirs, files, io_failures>>

\* what a finished run left behind
RunRecord ==
    [ran |-> TRUE, converter |-> converter, data |-> data, files |-> files]

\* The whole pipeline is run once more on the same corpus with the same
\* settings, the outputs of the first run set aside.
RunAgain ==
    /\ pc \in {"done", "selected"}
    /\ ~first_run.ran
    /\ io_failures = 0
    /\ first_run' = RunRecord
    /\ converter' = "context"
    /\ input_file' = [status |-> "ok", context_items |-> <<>>]
    /\ pc' = "convert"
    /\ data' = <<>>
    /\ cat_idx' = 0
    /\ chunk_idx' = 0
    /\ chunks' = <<>>
    /\ dirs' = {}
    /\ files' = <<>>
    /\ exported_files' = <<>>
    /\ UNCHANGED <<searchVars, corpusVars>>
    /\ UNCHANGED <<max_file_size_kb, max_items_per_file, verbose, io_failures>>

\* pages of two methods and an object, beside the pages of the archives
PipelinePages ==
    {entry \in ParsedPages : ~extract_syntax_info(entry).raised}
    \cup { Entry(Chars("methods/Count.html"),
                 <<PageTitle(Cyr(Marker.method) \o Chars(" Count")),
                   Chapter(Cyr(Marker.syntax_colon)), Para(<<TextPiece(Chars("Count()"))>>),
                   Chapter(Cyr(Marker.description) \o Chars(":")),
                   Para(<<TextPiece(Chars("Counts  the <b>items</b>."))>>)>>),
           Entry(Chars("objects/Array.html"),
                 <<PageTitle(Chars("Array")),
                   Chapter(Cyr(Marker.description) \o Chars(":")),
                   Para(<<TextPiece(Chars("A list."))>>)>>) }

\* the corpus extract_all_syntax builds from the pages of an archive
RECURSIVE CorpusOf(_, _)
CorpusOf(entries, corpus) ==
    IF entries = <<>> THEN corpus
    ELSE CorpusOf(Tail(entries),
                  categorize_syntax(corpus, extract_syntax_info(Head(entries)).value))

PipelineCorpora ==
    {CorpusOf(entries, EmptySyntaxData) :
        entries \in SeqsUpTo(PipelinePages, MaxPipelinePages)}

\* the context converter is about to run on the corpus file
InitPipeline ==
    /\ SearchIdle
    /\ run_max_files = NoLimit
    /\ zip_file = NoZip
    /\ max_files = 0
    /\ page_idx = 0
    /\ html_page = NoRecord
    /\ syntax_info = NoRecord
    /\ processed = 0
    /\ result = NoRecord
    /\ extract_pc = "idle"
    /\ converter = "context"
    /\ input_file \in {[status |-> st, context_items |-> <<>>] :
                        st \in {"ok", "missing", "malformed", "not_object"}}
    /\ syntax_data \in IF input_file.status = "ok" THEN PipelineCorpora
                       ELSE {EmptySyntaxData}
    /\ data = <<>>
    /\ max_file_size_kb = 1
    /\ max_items_per_file \in 1..MaxExportPerFile
    /\ verbose = FALSE
    /\ pc = "convert"
    /\ cat_idx = 0
    /\ chunk_idx = 0
    /\ chunks = <<>>
    /\ dirs = {}
    /\ files = <<>>
    /\ exported_files = <<>>
    /\ io_failures = 0
    /\ first_run = NoRun

NextPipeline ==
    \/ ContextConvert
    \/ StartConverter
    \/ LoadData
    \/ MakeOutputDir
    \/ GetItems
    \/ MakeCategoryDir
    \/ ExportChunk
    \/ ExportCategoryIndex
    \/ ExportSummary
    \/ CreateMainIndex
    \/ CreateOptimizedVersion
    \/ RunAgain

SpecPipeline == InitPipeline /\ [][NextPipeline]_vars


----------------------------------------------------------------------------
(* Claims about failures and about repeated runs *)

\* the file the running step reads is missing or is no JSON
LoadFails == input_file.status \in {"missing", "malformed"}

\* C15: if loading the input corpus or context file fails (the file is
\* missing or malformed), the step that tried to load it writes nothing: while
\* a converter runs on such a file, no step of it creates or changes a file
\* or a directory.
C15_LoadFailureWritesNothing ==
    [][(LoadFails /\ converter' = converter) => (files' = files /\ dirs' = dirs)]_vars

\* a split converter came to the end of convert() on a context file that is
\* no JSON, next to outputs an earlier step wrote
C15_Witness ==
    /\ pc = "load_failed"
    /\ converter \in {"max", "optimized"}
    /\ input_file.status = "malformed"
    /\ ContextPaths.txt \in DOMAIN files
    /\ \A path \in DOMAIN files : path[1] = "data"

\* the context converter came to the end of convert() on a missing corpus file
ContextLoadFailed ==
    /\ pc = "load_failed"
    /\ converter = "context"
    /\ files = <<>>
    /\ dirs = {}

\* C16: an I/O failure on one output (a category directory that cannot be
\* created or a chunk file that cannot be written) does not abort the export:
\* once the loop over the categories has begun, no exception leaves it, so
\* every remaining chunk file and index file is attempted.
C16_IOFailureNeverAborts == ~(pc = "raised" /\ cat_idx > 0)

\* a chunk file or an index file that cannot be written leaves the export
\* running: the next step is the next file
WriteFailureGoesOn ==
    [][(pc \in {"export_chunk", "export_index"} /\ io_failures' > io_failures)
          => pc' \in {"export_chunk", "export_index", "export_mkdir", "summary"}]_vars

\* what a clean export of the items leaves in exported_files once convert()
\* is through: the main index, behind the chunk and index files of every
\* category when verbose kept show_export_summary from emptying the list
CleanExportedFiles ==
    (IF verbose
     THEN Concat([k \in 1..Len(ExportCategories.keys) |->
            [i \in 1..Len(split_into_chunks(
                            ExportCategories.items[ExportCategories.keys[k]],
                            max_file_size_kb, max_items_per_file)) |->
                PathJoin(CategoryDir(converter, ExportCategories.keys[k]),
                         ChunkFileName(ExportCategories.keys[k], i,
                                       Prefix(converter)))]
            \o <<CategoryIndexPath(ExportCategories.keys[k])>>])
     ELSE <<>>)
    \o <<MainIndexPath>>

\* what the caller of convert() has in hand afterwards: the value returned,
\* whether an exception left the call, and the converter's exported_files
ConvertResult(exported) ==
    [returned |-> "None", raised |-> pc = "raised", exported_files |-> exported]

\* C17: whenever at least one file of an export could not be written, the
\* caller receives a failure signal: what convert() hands back after a write
\* failure differs from what it hands back after the export of the same items
\* in which every write succeeded.
C17_WriteFailureSignalled ==
    (pc = "done" /\ io_failures > 0)
        => ConvertResult(exported_files) # ConvertResult(CleanExportedFiles)

\* the second run of the pipeline is through, and no write of it failed
SecondRunDone ==
    /\ first_run.ran
    /\ pc \in {"done", "selected"}
    /\ io_failures = 0

\* the ids of a list of items, in order
IdsOf(items) == [k \in 1..Len(items) |-> ItemId(items[k])]

\* the files of the chunked export: the chunk and index files under the
\* output directory of a split converter
ChunkOutputs(fs) ==
    [path \in {p \in DOMAIN fs : p[1] # "data"} |-> fs[path]]

WholeFilesRepeat == SecondRunDone => files = first_run.files

----------------------------------------------------------------------------
(* The context formatter on the records of single pages *)

\* the syntax sections pages are made of: none, a plain syntax, a variant with
\* its parameter, a variant without parameters, and two variants with their
\* own parameters
SyntaxSections ==
    { <<>>,
      <<Chapter(Cyr(Marker.syntax_colon)), Para(<<TextPiece(Chars("F(x)"))>>)>>,
      <<Chapter(Cyr(Marker.variant) \o Chars(" A")),
        Chapter(Cyr(Marker.syntax_colon)), Para(<<TextPiece(Chars("A(x)"))>>),
        Chapter(Cyr(Marker.parameters)), Rubric(Chars("<x>"))>>,
      <<Chapter(Cyr(Marker.variant) \o Chars(" A")),
        Chapter(Cyr(Marker.syntax_colon)), Para(<<TextPiece(Chars("A()"))>>)>>,
      <<Chapter(Cyr(Marker.variant) \o Chars(" A")),
        Chapter(Cyr(Marker.syntax_colon)), Para(<<TextPiece(Chars("A(x)"))>>),
        Chapter(Cyr(Marker.parameters)), Rubric(Chars("<x>")),
        Chapter(Cyr(Marker.variant) \o Chars(" B")),
        Chapter(Cyr(Marker.syntax_colon)), Para(<<TextPiece(Chars("B(x,y)"))>>),
        Chapter(Cyr(Marker.parameters)), Rubric(Chars("<x>")),
        Rubric(Chars("<y> ") \o Cyr(Marker.optional))>> }

\* the description sections: none, a text with markup left in it, and a text
\* that is one placeholder in angle brackets
DescriptionSections ==
    { <<>>,
      <<Chapter(Cyr(Marker.description) \o Chars(":")),
        Para(<<TextPiece(Chars("Adds  <b>it</b>."))>>)>>,
      <<Chapter(Cyr(Marker.description) \o Chars(":")),
        Para(<<TextPiece(Chars("<Value>"))>>)>> }

ReturnSections ==
    { <<>>,
      <<Chapter(Cyr(Marker.return_value) \o Chars(":")),
        Para(<<TextPiece(Chars("Number"))>>)>> }

ExampleSections ==
    { <<>>,
      <<Chapter(Cyr(Marker.example) \o Chars(":")), Table(Chars("F(1);"))>> }

\* pages of a method with their sections in the order of the documentation,
\* and in the opposite order
FormatPages ==
    { Entry(Chars("methods/F.html"),
            <<PageTitle(Cyr(Marker.method) \o Chars(" F"))>>
            \o (IF forward THEN syntax \o description \o returns \o example
                ELSE example \o returns \o description \o syntax)) :
        syntax \in SyntaxSections, description \in DescriptionSections,
        returns \in ReturnSections, example \in ExampleSections,
        forward \in BOOLEAN }

\* the records of a page of a method and of a page of an object with two
\* methods
MethodRecord(name) ==
    extract_syntax_info(
        Entry(Chars("methods/") \o name \o Chars(".html"),
              <<PageTitle(Cyr(Marker.method) \o <<" ">> \o name),
                Chapter(Cyr(Marker.syntax_colon)),
                Para(<<TextPiece(name \o Chars("()"))>>)>>)).value

ObjectRecord(name) ==
    extract_syntax_info(
        Entry(Chars("objects/") \o name \o Chars(".html"),
              <<PageTitle(name),
                Chapter(Cyr(Marker.description) \o Chars(":")),
                Para(<<TextPiece(Chars("A list."))>>),
                Chapter(Cyr(Marker.methods) \o Chars(":")),
                List(<<<<TextPiece(Chars("Add (Add)"))>>,
                       <<TextPiece(Chars("Count"))>>>>)>>)).value

\* the entry of a record in the mapping of its category
Titled(record) == [title |-> record.title, record |-> record]

\* Corpus files of several records in two categories.  Some hold, between two
\* methods, a record with an error (categorize_syntax stores none: such a
\* file was written by other means) or a record whose error is empty.
FileCorpora ==
    { [EmptySyntaxData EXCEPT
          !.objects = objects,
          !.methods = <<Titled(MethodRecord(Chars("F")))>> \o between
                      \o <<Titled(MethodRecord(Chars("G")))>>] :
        objects \in {<<>>, <<Titled(ObjectRecord(Chars("Array")))>>},
        between \in { <<>>,
                      <<[title |-> Chars("Bad"),
                         record |-> ErrorRecord(Chars("methods/Bad.html"),
                                                TagNotCallable.message)]>>,
                      <<[title |-> Chars("Ok"),
                         record |-> [error |-> ""] @@ MethodRecord(Chars("Ok"))]>> } }

\* the context converter is about to run on the corpus extracted from one
\* page, html_page, or on a corpus file of several records
InitFormat ==
    /\ SearchIdle
    /\ run_max_files = NoLimit
    /\ zip_file = NoZip
    /\ max_files = 0
    /\ page_idx = 0
    /\ html_page \in FormatPages \cup {NoRecord}
    /\ syntax_info = NoRecord
    /\ processed = 0
    /\ result = NoRecord
    /\ extract_pc = "idle"
    /\ converter = "context"
    /\ input_file = [status |-> "ok", context_items |-> <<>>]
    /\ syntax_data \in IF html_page = NoRecord THEN FileCorpora
                       ELSE {CorpusOf(<<html_page>>, EmptySyntaxData)}
    /\ data = <<>>
    /\ max_file_size_kb = 1
    /\ max_items_per_file = 1
    /\ verbose = FALSE
    /\ pc = "convert"
    /\ cat_idx = 0
    /\ chunk_idx = 0
    /\ chunks = <<>>
    /\ dirs = {}
    /\ files = <<>>
    /\ exported_files = <<>>
    /\ io_failures = 0
    /\ first_run = NoRun

NextFormat == ContextConvert

SpecFormat == InitFormat /\ [][NextFormat]_vars

----------------------------------------------------------------------------
(* Claims about the rendered content *)

\* the sections of a content, in the order the claim gives them
SectionNames ==
    <<Cyr(Marker.syntax), Cyr(Marker.description), Cyr("Parametry"),
      Cyr(Marker.return_value), Cyr(Marker.example)>>

\* the line a section opens with
SectionHeading(s) == Chars("\n## ") \o SectionNames[s] \o <<"\n">>

\* the positions at which a text occurs in a content, ascending
Occurrences(content, sub) ==
    SelectSeq([k \in 1..Len(content) |-> k - 1],
              LAMBDA k : StartsAt(content, sub, k))

\* the text of a section that is there: from its heading to the next heading
\* of a section, or to the end
SectionText(content, s) ==
    LET from  == Find(content, SectionHeading(s), 0) + Len(SectionHeading(s)) - 1
        later == Find(content, Chars("\n## "), from)
    IN Slice(content, from, IF later = -1 THEN Len(content) ELSE later)

\* the record of the loaded corpus an item was formatted from
RecordOf(item) ==
    LET mapping == syntax_data[item.category]
    IN mapping[CHOOSE k \in 1..Len(mapping) : mapping[k].title = item.title].record

\* the sub-sections of a text are those of the variants, one each and in the
\* order declared
VariantSubsections(text, variants) ==
    LET subs == Occurrences(text, Chars("\n### "))
    IN /\ Len(subs) = Len(variants)
       /\ \A k \in 1..Len(subs) :
            StartsAt(text, variants[k].variant_name \o CodeOpen
                           \o variants[k].syntax \o CodeClose, subs[k] + 5)

\* C21: the rendered content of an item opens with the heading and lists its
\* sections in the fixed order syntax, description, parameters, return
\* value, example, each once at most; a record with syntax variants renders
\* exactly one syntax section, with one sub-section per variant in the order
\* declared.
C21_SectionsInOrder ==
    pc = "converted" =>
        \A k \in 1..Len(data) :
            LET content == data[k].content
                at(s)   == Find(content, SectionHeading(s), 0)
            IN /\ StartsAt(content, Chars("# ") \o data[k].title, 0)
               /\ \A s \in DOMAIN SectionNames :
                    Len(Occurrences(content, SectionHeading(s))) <= 1
               /\ \A s, t \in DOMAIN SectionNames :
                    (s < t /\ at(s) # -1 /\ at(t) # -1) => at(s) < at(t)
               /\ SeqGet(RecordOf(data[k]), "syntax_variants") # <<>>
                    => /\ Len(Occurrences(content, SectionHeading(1))) = 1
                       /\ VariantSubsections(SectionText(content, 1),
                                             RecordOf(data[k]).syntax_variants)

\* a page of two variants with the example first, rendered with all five
\* sections
C21_Witness ==
    /\ pc = "converted"
    /\ Len(data) = 1
    /\ Len(Chapters(html_page.nodes)) > 0
    /\ Contains(Cyr(Marker.example), GetText(html_page.nodes[Chapters(html_page.nodes)[1]]))
    /\ Len(SeqGet(RecordOf(data[1]), "syntax_variants")) = 2
    /\ \A s \in DOMAIN SectionNames : Contains(SectionHeading(s), data[1].content)

\* a content has the section
HasSection(content, s) == Contains(SectionHeading(s), content)

\* the syntax, description, return value and example of every item are
\* rendered exactly when the record has them
TextSectionsIffFields ==
    pc = "converted" =>
        \A k \in 1..Len(data) :
            LET content == data[k].content
                record  == RecordOf(data[k])
            IN /\ HasSection(content, 1)
                    <=> (SeqGet(record, "syntax") # <<>>
                         \/ SeqGet(record, "syntax_variants") # <<>>)
               /\ HasSection(content, 2) <=> SeqGet(record, "description") # <<>>
               /\ HasSection(content, 4) <=> SeqGet(record, "return_value") # <<>>
               /\ HasSection(content, 5) <=> SeqGet(record, "example") # <<>>

\* a record with parameters has its parameters section
ParametersAreRendered ==
    pc = "converted" =>
        \A k \in 1..Len(data) :
            SeqGet(RecordOf(data[k]), "parameters") # <<>>
                => HasSection(data[k].content, 3)

\* C22: each optional section is in the rendered content exactly when its
\* source field is non-empty; in particular, a record that has no parameters
\* has no parameters section.
C22_SectionsIffFields ==
    /\ TextSectionsIffFields
    /\ pc = "converted" =>
        \A k \in 1..Len(data) :
            HasSection(data[k].content, 3)
                <=> SeqGet(RecordOf(data[k]), "parameters") # <<>>

\* a description section always has a text (violated: the description that is
\* one placeholder in angle brackets is cleaned to nothing after the test
\* for the field)
DescriptionTextNeverEmpty ==
    pc = "converted" =>
        \A k \in 1..Len(data) :
            HasSection(data[k].content, 2)
                => Strip(SectionText(data[k].content, 2)) # <<>>

----------------------------------------------------------------------------
(* Claims about the ids of the formatted items *)

\* the entries of the loaded corpus in the order the converter walks it, the
\* records with an error left out
FormattedEntries ==
    Concat([c \in 1..Len(CategoryOrder) |->
              [k \in 1..Len(syntax_data[CategoryOrder[c]]) |->
                  [category |-> CategoryOrder[c],
                   title |-> syntax_data[CategoryOrder[c]][k].title,
                   error |-> StrGet(syntax_data[CategoryOrder[c]][k].record, "error")]]])

\* C23: the k-th item formatted (from zero, over all categories in the order
\* of the corpus, records with an error not counted) has the id
\* "{category}_{k}"; so the ids of a run are pairwise distinct.
C23_IdsCountFormattedItems ==
    pc = "converted" =>
        LET entries == SelectSeq(FormattedEntries, LAMBDA entry : entry.error = "")
        IN /\ Len(data) = Len(entries)
           /\ \A k \in 1..Len(data) :
                /\ data[k].title = entries[k].title
                /\ data[k].category = entries[k].category
                /\ data[k].id = data[k].category \o "_" \o ToString(k - 1)
           /\ \A j, k \in 1..Len(data) : data[j].id = data[k].id => j = k

\* a corpus of an object and of two methods with a record with an error
\* between them: the items are numbered 0, 1, 2
C23_Witness ==
    /\ pc = "converted"
    /\ \E k \in 1..Len(FormattedEntries) : FormattedEntries[k].error # ""
    /\ Len(data) = 3
    /\ data[1].id = "objects_0"
    /\ data[3].id = "methods_2"

----------------------------------------------------------------------------
(* Claims about the number of chunks *)

\* the byte budget cannot bind: the whole list is within it
BudgetNeverBinds == ChunkSize(data) <= ByteBudget

\* C24: when the byte budget never binds, splitting n items with
\* max_items_per_file = m >= 1 gives ceil(n / m) chunks, and every chunk but
\* the last holds exactly m items.
C24_ChunksOfFullCount ==
    (pc = "split_done" /\ max_items_per_file >= 1 /\ BudgetNeverBinds) =>
        /\ Len(chunks) = (Len(data) + max_items_per_file - 1) \div max_items_per_file
        /\ \A i \in 1..(Len(chunks) - 1) : Len(chunks[i]) = max_items_per_file

\* five items within the budget split by twos: chunks of 2, 2 and 1
C24_Witness ==
    /\ pc = "split_done"
    /\ BudgetNeverBinds
    /\ Len(data) = 5
    /\ max_items_per_file = 2
    /\ [i \in 1..Len(chunks) |-> Len(chunks[i])] = <<2, 2, 1>>

----------------------------------------------------------------------------
(* SplitConverter.validate_export: the files of an export measured *)

\* 500, the number of lines a file may have
LinesLimit == 500

\* name.endswith(suffix) of a file name
EndsWith(name, suffix) ==
    /\ Len(name) >= Len(suffix)
    /\ SubSeq(name, Len(name) - Len(suffix) + 1, Len(name)) = suffix

\* os.walk(output_dir): the files in the directory and in those below it
Walked(fs, output_dir) ==
    {p \in DOMAIN fs :
        \/ p[1] = output_dir
        \/ /\ Len(p[1]) > Len(output_dir)
           /\ SubSeq(p[1], 1, Len(output_dir) + 1) = output_dir \o "/"}

\* the files the validator measures: the .json files that are no index
Measured(fs, output_dir) ==
    {p \in Walked(fs, output_dir) :
        EndsWith(p[2], ".json") /\ ~EndsWith(p[2], "_index.json")}

\* os.path.getsize of a chunk file, json.dump(..., ensure_ascii=False,
\* indent=2) of {"items": chunk, "metadata": {...}}: the frame with its
\* metadata and a created_at of 26 characters comes to 168 bytes and the
\* category; an item takes its serialized length and 90 bytes more of line
\* breaks and indentation.  The texts are taken as ASCII and the lists of
\* parameters and links as empty: a Cyrillic character takes a byte more, a
\* list entry lines of its own.
FileBytes(content) ==
    168 + Len(content.metadata.category)
    + SumSeq([k \in 1..Len(content.items) |-> ItemSize(content.items[k]) + 90])

\* len(f.readlines()) of the same file: 11 lines of frame, 13 lines an item
FileLines(content) == 11 + 13 * Len(content.items)

\* what the validator says of a file of that size and that many lines
Verdict(bytes, lines, kb) ==
    IF bytes > kb * 1024 THEN "size"
    ELSE IF lines > LinesLimit THEN "lines"
    ELSE "valid"

\* the verdicts a file can get: a file json.dump left part-written has any
\* size up to that of the whole
Verdicts(content, kb) ==
    IF content = PartialContent THEN {"size", "lines", "valid"}
    ELSE {Verdict(FileBytes(content), FileLines(content), kb)}

\* what validate_export counted and listed
ValidationReport(fs, verdicts) ==
    [total_files    |-> Cardinality(DOMAIN verdicts),
     valid_files    |-> Cardinality({p \in DOMAIN verdicts : verdicts[p] = "valid"}),
     size_warnings  |-> {p \in DOMAIN verdicts : verdicts[p] = "size"},
     lines_warnings |-> {p \in DOMAIN verdicts : verdicts[p] = "lines"}]

\* self.validate_export(output_dir), called by convert() after the main index
ValidateExport ==
    /\ pc = "done"
    /\ \E verdicts \in [Measured(files, OutputDir(converter))
                          -> {"size", "lines", "valid"}] :
        /\ \A p \in DOMAIN verdicts :
              verdicts[p] \in Verdicts(files[p], max_file_size_kb)
        /\ result' = ValidationReport(files, verdicts)
    /\ pc' = "validated"
    /\ UNCHANGED <<searchVars, first_run, run_max_files, zip_file, max_files,
                   page_idx, html_page, syntax_info, syntax_data, processed,
                   extract_pc>>
    /\ UNCHANGED <<converter, input_file, data, max_file_size_kb,
                   max_items_per_file, verbose, cat_idx, chunk_idx, chunks,
                   dirs, files, exported_files, io_failures>>

\* the budgets of the validated exports, in KB
MaxValidateKb == 2

\* a split converter is about to convert a context file, with a budget that
\* two small items fill and with one that leaves them room
InitValidate ==
    /\ converter \in {"max", "optimized"}
    /\ input_file \in ExportInputs
    /\ data = <<>>
    /\ max_file_size_kb \in 1..MaxValidateKb
    /\ max_items_per_file \in 1..MaxExportPerFile
    /\ verbose = FALSE
    /\ pc = "load"
    /\ cat_idx = 0
    /\ chunk_idx = 0
    /\ chunks = <<>>
    /\ dirs = {}
    /\ files = <<>>
    /\ exported_files = <<>>
    /\ io_failures = 0
    /\ first_run = NoRun
    /\ SearchIdle
    /\ CorpusIdle

\* convert() of a split converter with the validation at its end
NextValidate == NextExport \/ ValidateExport

SpecValidate == InitValidate /\ [][NextValidate]_vars

\* the chunk files written whole that hold two items or more
MultiItemChunkFiles ==
    {p \in DOMAIN files :
        /\ files[p] # PartialContent
        /\ files[p].kind = "chunk"
        /\ Len(files[p].items) >= 2}

\* C25: the validator judges a chunk file by the thresholds the chunker used:
\* a chunk of two items or more that the chunker made is never reported as
\* exceeding the size or the number of lines.
C25_AcceptedChunksPassValidation ==
    pc = "validated" =>
        \A p \in MultiItemChunkFiles :
            /\ ChunkSize(files[p].items) <= ByteBudget
            /\ p \notin result.size_warnings
            /\ p \notin result.lines_warnings

\* every chunk of two items or more is within the budget by the chunker's
\* own estimate
MultiItemChunksWithinEstimate ==
    pc = "validated" =>
        \A p \in MultiItemChunkFiles : ChunkSize(files[p].items) <= ByteBudget

\* the validator reports a file for its size exactly when the file written
\* is larger than max_file_size_kb * 1024 bytes
SizeWarningsAreOfFileBytes ==
    pc = "validated" =>
        \A p \in Measured(files, OutputDir(converter)) :
            files[p] # PartialContent
                => (p \in result.size_warnings <=> FileBytes(files[p]) > ByteBudget)

----------------------------------------------------------------------------
(* Claims about the score of a formatted item *)

\* the weighted sum over what the record of an item has, with the content
\* of the item
RecordScore(record, item, with_methods, with_example) ==
    (IF with_methods THEN 10 * Len(SeqGet(record, "methods")) ELSE 0)
    + (IF SeqGet(record, "syntax") # <<>>
          \/ SeqGet(record, "syntax_variants") # <<>> THEN 5 ELSE 0)
    + (IF SeqGet(record, "parameters") # <<>> THEN 3 ELSE 0)
    + (IF with_example /\ SeqGet(record, "example") # <<>> THEN 1 ELSE 0)
    + (IF item.content # <<>> THEN 1 ELSE 0)

\* C26: the score create_optimized_version gives an item the formatter made
\* is ten times the number of the record's methods, plus 5 for any syntax, 3
\* for any parameters, 1 for an example and 1 for a content; so more methods
\* or an example make the score strictly higher.
C26_ScoreCountsMethodsAndExample ==
    pc = "converted" =>
        \A k \in 1..Len(data) :
            run_score(data[k]) = RecordScore(RecordOf(data[k]), data[k], TRUE, TRUE)

\* the score is that sum without the methods and without the example
ScoreWithoutMethodsAndExample ==
    pc = "converted" =>
        \A k \in 1..Len(data) :
            run_score(data[k]) = RecordScore(RecordOf(data[k]), data[k], FALSE, FALSE)

\* neither score ever depends on the methods or on the example of the record
\* of a formatted item
FormattedItemsKeepNoMethods ==
    pc = "converted" =>
        \A k \in 1..Len(data) :
            /\ "methods" \notin DOMAIN data[k].metadata
            /\ "example" \notin DOMAIN data[k].metadata
            /\ score_item(data[k])
                 = (IF data[k].category \in {"methods", "functions"} THEN 100 ELSE 0)
                   + (IF SeqGet(RecordOf(data[k]), "syntax") # <<>> THEN 50 ELSE 0)
                   + (IF SeqGet(RecordOf(data[k]), "parameters") # <<>> THEN 30 ELSE 0)
                   + (IF Len(data[k].content) > 50 THEN 10 ELSE 0)

----------------------------------------------------------------------------
(* extract_syntax_info on pages whose sections come in any order *)

MaxSectionNodes == 4

\* the nodes these pages are made of: the markers of the syntax, of a variant,
\* of the description and of the return value, two paragraphs, a string of
\* blanks and a block that is no paragraph
SectionNodes ==
    { Chapter(Cyr(Marker.syntax_colon)),
      Chapter(Cyr(Marker.variant) \o Chars(" A")),
      Chapter(Cyr(Marker.description) \o Chars(":")),
      Chapter(Cyr(Marker.return_value) \o Chars(":")),
      Para(<<TextPiece(Chars("F(x)"))>>),
      Para(<<TextPiece(Chars("Text."))>>),
      Text(Chars(" ")),
      Rubric(Chars("<x>")) }

SectionPages ==
    { Entry(Chars("methods/F.html"),
            <<PageTitle(Cyr(Marker.method) \o Chars(" F"))>> \o nodes) :
        nodes \in SeqsUpTo(SectionNodes, MaxSectionNodes) }

InitSections ==
    /\ ConvIdle
    /\ SearchIdle
    /\ run_max_files = NoLimit
    /\ zip_file = NoZip
    /\ max_files = 0
    /\ page_idx = 0
    /\ html_page \in SectionPages
    /\ syntax_info = NoRecord
    /\ syntax_data = EmptySyntaxData
    /\ processed = 0
    /\ result = NoRecord
    /\ extract_pc = "call_extract"

SpecSections == InitSections /\ [][NextExtract]_vars

----------------------------------------------------------------------------
(* Claims about where the sections end *)

\* the text of node j belongs to the section of the marker i: j comes after
\* i, is no chapter marker, and no chapter marker lies between
InSection(nodes, i, j) ==
    /\ i < j
    /\ j <= Len(nodes)
    /\ \A k \in (i + 1)..j : ~IsChapter(nodes[k])

\* the chapter markers that can open a syntax
SyntaxMarkersOf(nodes) ==
    {i \in Range(Chapters(nodes)) : Contains(Cyr(Marker.syntax), GetText(nodes[i]))}

\* a text is that of a node in the section of a syntax marker
IsSyntaxBody(nodes, text) ==
    \E i \in SyntaxMarkersOf(nodes) :
        \E j \in (i + 1)..Len(nodes) :
            InSection(nodes, i, j) /\ GetText(nodes[j]) = text

\* C27: the scan for a syntax body stops at the next chapter marker: a syntax
\* recorded, plain or of a variant, is the text of a node between a syntax
\* marker and the next chapter marker, and without content there no syntax
\* is recorded.
C27_SyntaxScanStopsAtMarker ==
    extract_pc = "returned" =>
        /\ SeqGet(syntax_info, "syntax") # <<>>
              => IsSyntaxBody(html_page.nodes, syntax_info.syntax)
        /\ \A k \in 1..Len(SeqGet(syntax_info, "syntax_variants")) :
              IsSyntaxBody(html_page.nodes, syntax_info.syntax_variants[k].syntax)

\* the syntax recorded is never the text of a chapter marker
SyntaxIsNoMarkerText ==
    extract_pc = "returned" =>
        \A i \in Range(Chapters(html_page.nodes)) :
            SeqGet(syntax_info, "syntax") # GetText(html_page.nodes[i])

\* the value a one-paragraph section has in the record is empty or the text
\* of a node in the section of the first chapter marker with the word
IsOfFirstSection(nodes, marker, value) ==
    value # <<>> =>
        \E j \in 1..Len(nodes) :
            /\ InSection(nodes, FirstChapterWith(nodes, marker), j)
            /\ FirstChapterWith(nodes, marker) # 0
            /\ GetText(nodes[j]) = value

\* C28: the description and the return value are the text of the node that
\* follows the first matching chapter marker: never the text of a chapter
\* marker, never that of a node beyond the next chapter marker.
C28_SectionTextStaysInSection ==
    extract_pc = "returned" =>
        /\ IsOfFirstSection(html_page.nodes, Cyr(Marker.description),
                            SeqGet(syntax_info, "description"))
        /\ IsOfFirstSection(html_page.nodes, Cyr(Marker.return_value),
                            SeqGet(syntax_info, "return_value"))

\* only the first matching marker is consulted: the value is the text of
\* the first <p> after it, of whatever class
LaterMarkersNotConsulted ==
    extract_pc = "returned" =>
        \A key \in {"description", "return_value"} :
            LET marker == IF key = "description" THEN Cyr(Marker.description)
                          ELSE Cyr(Marker.return_value)
                first == FirstChapterWith(html_page.nodes, marker)
            IN SeqGet(syntax_info, key) # <<>>
                 => /\ first # 0
                    /\ \E j \in (first + 1)..Len(html_page.nodes) :
                          /\ html_page.nodes[j].name = "p"
                          /\ GetText(html_page.nodes[j]) = syntax_info[key]
                          /\ \A k \in (first + 1)..(j - 1) :
                                html_page.nodes[k].name # "p"

----------------------------------------------------------------------------
(* extract_syntax_info on pages of variants and parameter blocks *)

MaxParamNodes == 3

\* the nodes these pages are made of: the markers of two variants and of the
\* parameters, and the blocks of a parameter, of an optional one and of one
\* without a name
ParamNodes ==
    { Chapter(Cyr(Marker.variant) \o Chars(" A")),
      Chapter(Cyr(Marker.variant) \o Chars(" B")),
      Chapter(Cyr(Marker.parameters)),
      Rubric(Chars("<x>")),
      Rubric(Chars("<y> ") \o Cyr(Marker.optional)),
      Rubric(Chars("z")) }

\* pages that open with nothing or with a variant, its parameters marker and
\* a parameter
ParamPages ==
    { Entry(Chars("methods/F.html"),
            <<PageTitle(Cyr(Marker.method) \o Chars(" F"))>> \o opening \o nodes) :
        opening \in {<<>>, <<Chapter(Cyr(Marker.variant) \o Chars(" A")),
                             Chapter(Cyr(Marker.parameters)),
                             Rubric(Chars("<x>"))>>},
        nodes \in SeqsUpTo(ParamNodes, MaxParamNodes) }

InitParams ==
    /\ ConvIdle
    /\ SearchIdle
    /\ run_max_files = NoLimit
    /\ zip_file = NoZip
    /\ max_files = 0
    /\ page_idx = 0
    /\ html_page \in ParamPages
    /\ syntax_info = NoRecord
    /\ syntax_data = EmptySyntaxData
    /\ processed = 0
    /\ result = NoRecord
    /\ extract_pc = "call_extract"

SpecParams == InitParams /\ [][NextExtract]_vars

----------------------------------------------------------------------------
(* Claims about the parameters of the variants *)

\* the variant markers of a page, and the variant declared last at node i
VariantMarkers(nodes) ==
    SelectSeq(Chapters(nodes),
              LAMBDA i : Contains(Cyr(Marker.variant), GetText(nodes[i])))

DeclaredAt(nodes, i) ==
    LET earlier == SelectSeq(VariantMarkers(nodes), LAMBDA m : m <= i)
    IN IF earlier = <<>> THEN NoVariant
       ELSE VariantName(GetText(nodes[earlier[Len(earlier)]]))

\* the names in the blocks between a parameters marker and the next chapter
\* marker: the text between '<' and '>' of every block that has one
BlockNames(nodes, i) ==
    LET blocks == SelectSeq([j \in 1..Len(nodes) |-> j],
                            LAMBDA j : /\ InSection(nodes, i, j)
                                       /\ nodes[j].name = "div"
                                       /\ nodes[j].class = "V8SH_rubric"
                                       /\ Contains(<<"<">>, GetText(nodes[j]))
                                       /\ Contains(<<">">>, GetText(nodes[j])))
    IN [k \in 1..Len(blocks) |->
           Slice(GetText(nodes[blocks[k]]),
                 Find(GetText(nodes[blocks[k]]), <<"<">>, 0) + 1,
                 Find(GetText(nodes[blocks[k]]), <<">">>, 0))]

\* the names of the blocks of all parameters markers at which the variant
\* was the one declared last, in the order of the page
NamesUnder(nodes, variant) ==
    LET markers == SelectSeq(Chapters(nodes),
                       LAMBDA i : /\ Contains(Cyr(Marker.parameters), GetText(nodes[i]))
                                  /\ DeclaredAt(nodes, i) = variant)
    IN Concat([k \in 1..Len(markers) |-> BlockNames(nodes, markers[k])])

\* the variants in the order of their first declaration
RECURSIVE FirstDeclarations(_, _, _)
FirstDeclarations(nodes, markers, seen) ==
    IF markers = <<>> THEN seen
    ELSE LET variant == VariantName(GetText(nodes[Head(markers)]))
         IN FirstDeclarations(nodes, Tail(markers),
                IF variant \in Range(seen) THEN seen ELSE Append(seen, variant))

\* C29: every parameter block between a parameters marker and the next
\* chapter marker is recorded under the variant declared last before the
\* marker and under no other; a parameters marker with no variant open
\* records nothing; every recorded parameter has a non-empty name and a
\* boolean optional flag; the flat list of parameters is the concatenation of
\* the lists of the variants in the order of their declaration.
C29_ParametersUnderOpenVariant ==
    extract_pc = "returned" =>
        LET nodes == html_page.nodes
            by    == SeqGet(syntax_info, "parameters_by_variant")
        IN /\ [k \in 1..Len(by) |-> by[k].variant]
                = FirstDeclarations(nodes, VariantMarkers(nodes), <<>>)
           /\ \A k \in 1..Len(by) :
                [p \in 1..Len(by[k].parameters) |-> by[k].parameters[p].name]
                   = IF VariantOpen(by[k].variant)
                     THEN NamesUnder(nodes, by[k].variant) ELSE <<>>
           /\ \A p \in 1..Len(syntax_info.parameters) :
                /\ syntax_info.parameters[p].name # <<>>
                /\ syntax_info.parameters[p].optional \in BOOLEAN
           /\ syntax_info.parameters
                = Concat([k \in 1..Len(by) |-> by[k].parameters])

\* a page of two variants with a parameter each, the second optional
C29_Witness ==
    /\ extract_pc = "returned"
    /\ Len(SeqGet(syntax_info, "parameters_by_variant")) = 2
    /\ \A k \in 1..2 : Len(syntax_info.parameters_by_variant[k].parameters) = 1
    /\ [p \in 1..Len(syntax_info.parameters) |-> syntax_info.parameters[p].name]
         = <<Chars("x"), Chars("y")>>
    /\ syntax_info.parameters[2].optional
    /\ ~syntax_info.parameters[1].optional

----------------------------------------------------------------------------
(* extract_syntax_info on pages of method lists and method links *)

MaxMethodNodes == 3

\* the nodes these pages are made of: the marker of the methods and another
\* one, a list of a method and a list without text, links to methods (one
\* method twice, two whose names and English names run together alike, one
\* without text) and a link to an object
MethodNodes ==
    { Chapter(Cyr(Marker.methods) \o Chars(":")),
      Chapter(Cyr(Marker.description) \o Chars(":")),
      List(<<<<TextPiece(Chars("Sort (Sort)"))>>>>),
      List(<<<<TextPiece(Chars(" "))>>>>),
      Link(Chars("Add (Add)"), Chars("v8help://methods/Add")),
      Link(Chars("Add (Add)"), Chars("v8help://methods/Add2")),
      Link(Chars("A_B"), Chars("v8help://methods/A_B")),
      Link(Chars("A (B_)"), Chars("v8help://methods/A")),
      Link(Chars(""), Chars("v8help://methods/None")),
      Link(Chars("Array"), Chars("v8help://objects/Array")) }

MethodPages ==
    { Entry(Chars("objects/Array.html"), <<PageTitle(Chars("Array"))>> \o nodes) :
        nodes \in SeqsUpTo(MethodNodes, MaxMethodNodes) }

InitMethods ==
    /\ ConvIdle
    /\ SearchIdle
    /\ run_max_files = NoLimit
    /\ zip_file = NoZip
    /\ max_files = 0
    /\ page_idx = 0
    /\ html_page \in MethodPages
    /\ syntax_info = NoRecord
    /\ syntax_data = EmptySyntaxData
    /\ processed = 0
    /\ result = NoRecord
    /\ extract_pc = "call_extract"

SpecMethods == InitMethods /\ [][NextExtract]_vars

----------------------------------------------------------------------------
(* Claims about the methods of an object *)

\* the texts of the bullets below the methods markers: for each marker those
\* of the first list in its section
BulletTexts(nodes) ==
    LET markers == SelectSeq(Chapters(nodes),
                       LAMBDA i : Contains(Cyr(Marker.methods), GetText(nodes[i])))
        lists == SelectSeq([j \in 1..Len(nodes) |-> j],
                     LAMBDA j : /\ nodes[j].name = "ul"
                                /\ \E k \in 1..Len(markers) :
                                      /\ InSection(nodes, markers[k], j)
                                      /\ \A l \in (markers[k] + 1)..(j - 1) :
                                            nodes[l].name # "ul")
        texts == Concat([k \in 1..Len(lists) |->
                    [l \in 1..Len(nodes[lists[k]].items) |->
                        PiecesText(nodes[lists[k]].items[l])]])
    IN SelectSeq(texts, LAMBDA text : text # <<>>)

\* the links of a page into the methods namespace that have a text, each
\* with the pair its text gives
MethodLinks(nodes) ==
    LET anchors == SelectSeq(AllAnchors(nodes),
                       LAMBDA a : /\ Contains(Chars("methods/"), a.href)
                                  /\ Strip(a.text) # <<>>)
    IN [k \in 1..Len(anchors) |-> MethodEntry(Strip(anchors[k].text))]

\* the first of every (name, english_name) pair, in document order
FirstOfEachPair(entries) ==
    SelectSeq([k \in 1..Len(entries) |->
                  IF \E j \in 1..(k - 1) :
                        /\ entries[j].name = entries[k].name
                        /\ entries[j].english_name = entries[k].english_name
                  THEN <<>> ELSE entries[k]],
              LAMBDA entry : entry # <<>>)

\* C30: the links are the source of an object's methods only when the
\* lists below the methods markers gave none; then the methods are, in
\* document order, the first link of every distinct (name, english_name)
\* pair among the links into the methods namespace that have a text: a link
\* is left out only if an earlier one has the same name and the same
\* english_name.
C30_MethodsFromLinks ==
    extract_pc = "returned" =>
        IF BulletTexts(html_page.nodes) # <<>>
        THEN [k \in 1..Len(syntax_info.methods) |-> syntax_info.methods[k].full_name]
                = BulletTexts(html_page.nodes)
        ELSE syntax_info.methods = FirstOfEachPair(MethodLinks(html_page.nodes))

\* the same on the pages on which no two pairs run together to one key
MethodsFromLinksOfDistinctKeys ==
    (/\ extract_pc = "returned"
     /\ \A j, k \in 1..Len(MethodLinks(html_page.nodes)) :
           MethodKey(MethodLinks(html_page.nodes)[j])
              = MethodKey(MethodLinks(html_page.nodes)[k])
           => MethodLinks(html_page.nodes)[j].name
                 = MethodLinks(html_page.nodes)[k].name)
        => C30_MethodsFromLinks

=============================================================================
